---------------------------- MODULE Spec2Model ----------------------------
(***************************************************************************)
(* Model of extprim's unsigned 128-bit integer (src/src/u128.rs).          *)
(*                                                                         *)
(* A u64 is modelled at its full width as a little-endian sequence of 8    *)
(* bytes (TLC's integers are 32 bits wide, so a limb cannot be one TLC     *)
(* integer), and a u128 as the record [hi |-> u64, lo |-> u64] of the      *)
(* struct.  The primitive u64 operations of the Rust standard library that *)
(* the source calls (overflowing_add, wrapping_mul, >>, ...) are modelled  *)
(* on these byte sequences; the u128 operations are translated from the    *)
(* source line by line on top of them.  The numeric value of a u128 is the *)
(* 16-byte natural number lo \o hi, and the claims compare the results of  *)
(* the code with schoolbook arithmetic on such naturals.                   *)
(***************************************************************************)
EXTENDS Integers, Sequences, FiniteSets, TLC

VARIABLES
    a, b, c,    \* the u128 operands
    arg,        \* the u32 argument: a shift amount, a rotation amount or a radix
    src,        \* the text given to from_str_radix, a sequence of characters
    chars,      \* src.chars(): the characters the parsing loop has yet to read
    op, out     \* the operation applied and its outcome

vars == <<a, b, c, arg, src, chars, op, out>>

-----------------------------------------------------------------------------
(* Natural numbers as little-endian sequences of base-256 digits.          *)

Zeros(n) == [i \in 1..n |-> 0]

IsZeroNat(x) == \A i \in 1..Len(x) : x[i] = 0

\* x padded with leading (most significant) zero digits up to n digits
Pad(x, n) == IF Len(x) >= n THEN x ELSE x \o Zeros(n - Len(x))

\* the n least significant digits of x: x mod 256^n
Low(x, n) == SubSeq(Pad(x, n), 1, n)

\* the digits of x from position n+1 up: x div 256^n
High(x, n) == IF Len(x) <= n THEN <<>> ELSE SubSeq(x, n + 1, Len(x))

RECURSIVE NatAddFrom(_, _, _, _)
NatAddFrom(x, y, i, cy) ==
    IF i > Len(x) THEN <<cy>>
    ELSE LET s == x[i] + y[i] + cy
         IN  <<s % 256>> \o NatAddFrom(x, y, i + 1, s \div 256)

\* x + y, for x and y of n digits each: n + 1 digits
NatAdd(x, y) == NatAddFrom(x, y, 1, 0)

RECURSIVE NatSubFrom(_, _, _, _)
NatSubFrom(x, y, i, bw) ==
    IF i > Len(x) THEN <<bw>>
    ELSE LET d == x[i] - y[i] - bw
         IN  <<d % 256>> \o NatSubFrom(x, y, i + 1, IF d < 0 THEN 1 ELSE 0)

\* (x - y) mod 256^n for x and y of n digits each, followed by the borrow
\* digit: 1 when x < y and 0 otherwise
NatSub(x, y) == NatSubFrom(x, y, 1, 0)

RECURSIVE ColSum(_, _, _, _)
ColSum(x, y, k, i) ==
    IF i > Len(x) \/ i > k THEN 0
    ELSE (IF k + 1 - i <= Len(y) THEN x[i] * y[k + 1 - i] ELSE 0)
         + ColSum(x, y, k, i + 1)

RECURSIVE NatMulFrom(_, _, _, _, _)
NatMulFrom(x, y, k, cy, n) ==
    IF k > n THEN <<>>
    ELSE LET s == ColSum(x, y, k, 1) + cy
         IN  <<s % 256>> \o NatMulFrom(x, y, k + 1, s \div 256, n)

\* x * y: Len(x) + Len(y) digits
NatMul(x, y) == NatMulFrom(x, y, 1, 0, Len(x) + Len(y))

\* (x * y) mod 256^n: the n least significant digits of the product
NatMulLow(x, y, n) == NatMulFrom(x, y, 1, 0, n)

\* the columns of a product summed in one stretch
MulBlock == 8

\* the digits k..last of x * y, cy being the carry into the column k,
\* followed by the carry out of the column last
RECURSIVE NatMulCols(_, _, _, _, _)
NatMulCols(x, y, k, cy, last) ==
    IF k > last THEN <<cy>>
    ELSE CHOOSE res \in
             { <<p[1] % 256>> \o NatMulCols(x, y, p[2], p[1] \div 256, last) :
                   p \in {<<ColSum(x, y, k, 1) + cy, k + 1>>} } : TRUE

\* the digits k..n of x * y, MulBlock columns at a time
RECURSIVE NatMulBlocks(_, _, _, _, _)
NatMulBlocks(x, y, k, cy, n) ==
    IF k > n THEN <<>>
    ELSE CHOOSE res \in
             { SubSeq(q[1], 1, Len(q[1]) - 1)
                   \o NatMulBlocks(x, y, q[2], q[1][Len(q[1])], n) :
                   q \in {<<NatMulCols(x, y, k, cy,
                                       IF k + MulBlock - 1 < n
                                       THEN k + MulBlock - 1 ELSE n),
                            k + MulBlock>>} } : TRUE

RECURSIVE NatLessFrom(_, _, _)
NatLessFrom(x, y, i) ==
    IF i = 0 THEN FALSE
    ELSE IF x[i] # y[i] THEN x[i] < y[i]
    ELSE NatLessFrom(x, y, i - 1)

\* x < y, for x and y of n digits each
NatLess(x, y) == NatLessFrom(x, y, Len(x))

\* bit i of x, bit 0 being the least significant
NatBit(x, i) == (x[(i \div 8) + 1] \div (2 ^ (i % 8))) % 2

\* (2 * x + bit) mod 256^n, for x of n digits
NatDouble(x, bit) == Low(NatAddFrom(x, x, 1, bit), Len(x))

\* One step of restoring division, on the state st = <<q, r>> of the
\* quotient bits found and the running remainder (one digit more than y):
\* bit i of x is shifted into r, and y is subtracted where it fits.
NatDivStep(st, x, y, i) ==
    LET r2 == NatDouble(st[2], NatBit(x, i))
    IN  IF NatLess(r2, y \o <<0>>) THEN <<st[1], r2>>
        ELSE << [st[1] EXCEPT ![(i \div 8) + 1] = @ + (2 ^ (i % 8))],
                Low(NatSub(r2, y \o <<0>>), Len(r2)) >>

\* The steps for the bits i down to low of x, from the state st.  (The state
\* of each step is bound by a quantifier, which holds a value: TLC evaluates
\* an operator's argument anew at each of its uses.)
RECURSIVE NatDivBits(_, _, _, _, _)
NatDivBits(st, x, y, i, low) ==
    IF i < low THEN st
    ELSE CHOOSE res \in { NatDivBits(st2, x, y, i - 1, low) :
                             st2 \in {NatDivStep(st, x, y, i)} } : TRUE

\* the bits divided in one stretch, and the stretches in one run
DivBlock == 5

\* the larger of two integers
Larger(m, n) == IF m < n THEN n ELSE m

\* the steps for the bits i down to low of x, DivBlock bits at a time
RECURSIVE NatDivRuns(_, _, _, _, _)
NatDivRuns(st, x, y, i, low) ==
    IF i < low THEN st
    ELSE CHOOSE res \in
             { NatDivRuns(p[1], x, y, p[2], low) :
                   p \in {<<NatDivBits(st, x, y, i, Larger(low, i - DivBlock + 1)),
                            i - DivBlock>>} } : TRUE

\* the steps for the bits i down to 0 of x, DivBlock * DivBlock bits at a time
RECURSIVE NatDivModFrom(_, _, _, _)
NatDivModFrom(st, x, y, i) ==
    IF i < 0 THEN st
    ELSE CHOOSE res \in
             { NatDivModFrom(p[1], x, y, p[2]) :
                   p \in {<<NatDivRuns(st, x, y, i,
                                       Larger(0, i - DivBlock * DivBlock + 1)),
                            i - DivBlock * DivBlock>>} } : TRUE

\* <<x div y, x mod y>> for x and y of n digits each, y nonzero
NatDivMod(x, y) ==
    LET qr == NatDivModFrom(<<Pad(<<>>, Len(x)), Pad(<<>>, Len(x) + 1)>>,
                            x, y, 8 * Len(x) - 1)
    IN  <<qr[1], Low(qr[2], Len(x))>>

-----------------------------------------------------------------------------
(* The u64 primitives of the standard library that the source calls.       *)

\* the u64 with the 16-bit words w3 w2 w1 w0, most significant first
U64(w3, w2, w1, w0) ==
    << w0 % 256, w0 \div 256, w1 % 256, w1 \div 256,
       w2 % 256, w2 \div 256, w3 % 256, w3 \div 256 >>

u64_ZERO == Zeros(8)
\* a u32 is a little-endian sequence of 4 bytes
u32_ZERO == Zeros(4)
u64_ONE == U64(0, 0, 0, 1)
u64_MAX == U64(\hFFFF, \hFFFF, \hFFFF, \hFFFF)

u64_overflowing_add(x, y) ==
    LET s == NatAdd(x, y) IN <<Low(s, 8), s[9] # 0>>

u64_wrapping_add(x, y) == Low(NatAdd(x, y), 8)

u64_overflowing_sub(x, y) ==
    LET d == NatSub(x, y) IN <<Low(d, 8), d[9] # 0>>

u64_wrapping_sub(x, y) == Low(NatSub(x, y), 8)

u64_not(x) == [i \in 1..8 |-> 255 - x[i]]

u64_wrapping_mul(x, y) == NatMulLow(x, y, 8)

u64_overflowing_mul(x, y) ==
    LET p == NatMul(x, y) IN <<Low(p, 8), ~IsZeroNat(High(p, 8))>>

\* x >> 32
u64_shr_32(x) == SubSeq(x, 5, 8) \o Zeros(4)

\* x << 32
u64_shl_32(x) == Zeros(4) \o SubSeq(x, 1, 4)

\* x & 0xffffffff
u64_and_ffffffff(x) == SubSeq(x, 1, 4) \o Zeros(4)

\* if carry { 1 } else { 0 }
BoolToU64(f) == IF f THEN u64_ONE ELSE u64_ZERO

\* bit t of the byte v
BitOf(v, t) == (v \div (2 ^ t)) % 2

\* p & q and p | q of two bytes
ByteAnd(p, q) ==
    LET B(t) == BitOf(p, t) * BitOf(q, t) * (2 ^ t)
    IN  B(0) + B(1) + B(2) + B(3) + B(4) + B(5) + B(6) + B(7)

ByteOr(p, q) == p + q - ByteAnd(p, q)

\* the u32 of value v, for v < 2^16
U32(v) == <<v % 256, v \div 256, 0, 0>>

u32_MAX == <<255, 255, 255, 255>>

u32_and(x, y) ==
    <<ByteAnd(x[1], y[1]), ByteAnd(x[2], y[2]), ByteAnd(x[3], y[3]),
      ByteAnd(x[4], y[4])>>

u32_wrapping_sub(x, y) == Low(NatSub(x, y), 4)

\* x >= y
u32_ge(x, y) == ~NatLess(x, y)

\* x as u64
u32_as_u64(x) == x \o Zeros(4)

u64_or(x, y) ==
    <<ByteOr(x[1], y[1]), ByteOr(x[2], y[2]), ByteOr(x[3], y[3]),
      ByteOr(x[4], y[4]), ByteOr(x[5], y[5]), ByteOr(x[6], y[6]),
      ByteOr(x[7], y[7]), ByteOr(x[8], y[8])>>

\* x << k for 0 <= k < 64: digit i takes the low bits of digit i - k div 8
\* and the high bits of the digit before
u64_shl_bits(x, k) ==
    LET q == k \div 8
        r == k % 8
        D(i) == (IF i - q >= 1 THEN (x[i - q] * (2 ^ r)) % 256 ELSE 0)
                + (IF i - q >= 2 THEN x[i - q - 1] \div (2 ^ (8 - r)) ELSE 0)
    IN  <<D(1), D(2), D(3), D(4), D(5), D(6), D(7), D(8)>>

\* x >> k for 0 <= k < 64
u64_shr_bits(x, k) ==
    LET q == k \div 8
        r == k % 8
        D(i) == (IF i + q <= 8 THEN x[i + q] \div (2 ^ r) ELSE 0)
                + (IF i + q <= 7 THEN (x[i + q + 1] * (2 ^ (8 - r))) % 256 ELSE 0)
    IN  <<D(1), D(2), D(3), D(4), D(5), D(6), D(7), D(8)>>

\* u64::wrapping_shl and wrapping_shr: the shift amount rhs, a u32, is
\* taken modulo 64
u64_wrapping_shl(x, rhs) == u64_shl_bits(x, rhs[1] % 64)

u64_wrapping_shr(x, rhs) == u64_shr_bits(x, rhs[1] % 64)

\* the operators << and >> of u64, whose shift amount is below 64 at every
\* call of the source
u64_shl(x, rhs) == u64_shl_bits(x, rhs[1] % 64)

u64_shr(x, rhs) == u64_shr_bits(x, rhs[1] % 64)

-----------------------------------------------------------------------------
(* Structure                                                               *)

from_parts(hi, lo) == [lo |-> lo, hi |-> hi]

new(lo) == [lo |-> lo, hi |-> u64_ZERO]

MIN == [lo |-> u64_ZERO, hi |-> u64_ZERO]

MAX == [lo |-> u64_MAX, hi |-> u64_MAX]

ZERO == MIN

ONE == [lo |-> u64_ONE, hi |-> u64_ZERO]

\* the numeric value hi * 2^64 + lo, as a 16-digit natural
ToNat(x) == x.lo \o x.hi

\* the u128 whose value is the 16-digit natural n
FromNat(n) == [lo |-> SubSeq(n, 1, 8), hi |-> SubSeq(n, 9, 16)]

low64(x) == x.lo

high64(x) == x.hi

\* #[derive(PartialEq, Eq)]: field by field
eq(x, y) == x.lo = y.lo /\ x.hi = y.hi

\* Ord for u64
u64_cmp(x, y) ==
    IF NatLess(x, y) THEN "Less" ELSE IF NatLess(y, x) THEN "Greater" ELSE "Equal"

\* cmp that compares the low limbs first
cmp_lo_first(x, y) ==
    IF u64_cmp(x.lo, y.lo) # "Equal" THEN u64_cmp(x.lo, y.lo)
    ELSE u64_cmp(x.hi, y.hi)

\* (self.hi, self.lo).cmp(&(other.hi, other.lo))
cmp(x, y) ==
    IF u64_cmp(x.hi, y.hi) # "Equal" THEN u64_cmp(x.hi, y.hi)
    ELSE u64_cmp(x.lo, y.lo)

\* the operators <, <=, >, >= that PartialOrd derives from partial_cmp
lt(x, y) == cmp(x, y) = "Less"

le(x, y) == cmp(x, y) \in {"Less", "Equal"}

gt(x, y) == cmp(x, y) = "Greater"

ge(x, y) == cmp(x, y) \in {"Greater", "Equal"}

\* impl Ord for u128: (hi, lo) compared lexicographically
Less(x, y) ==
    IF x.hi # y.hi THEN NatLess(x.hi, y.hi) ELSE NatLess(x.lo, y.lo)

LessEq(x, y) == x = y \/ Less(x, y)

\* impl Not for u128
not(x) == [lo |-> u64_not(x.lo), hi |-> u64_not(x.hi)]

\* Option<u128> and the outcome of a panicking operator
Some(v) == [tag |-> "Some", val |-> v, flag |-> FALSE, msg |-> ""]

None == [tag |-> "None", val |-> ZERO, flag |-> FALSE, msg |-> ""]

Value(v) == [tag |-> "value", val |-> v, flag |-> FALSE, msg |-> ""]

Pair(v, f) == [tag |-> "pair", val |-> v, flag |-> f, msg |-> ""]

Panic(m) == [tag |-> "panic", val |-> ZERO, flag |-> FALSE, msg |-> m]

unwrap_or(o, d) == IF o.tag = "Some" THEN o.val ELSE d

-----------------------------------------------------------------------------
(* Add, Sub                                                                *)

\* wrapping_add with the carry out of the low limb dropped
wrapping_add_no_carry(x, y) ==
    from_parts(u64_wrapping_add(x.hi, y.hi), u64_wrapping_add(x.lo, y.lo))

wrapping_add(x, y) ==
    LET r == u64_overflowing_add(x.lo, y.lo)
        lo == r[1]
        carry == r[2]
        hi1 == u64_wrapping_add(x.hi, y.hi)
        hi == u64_wrapping_add(hi1, BoolToU64(carry))
    IN  from_parts(hi, lo)

\* wrapping_sub with the borrow out of the low limb dropped
wrapping_sub_no_borrow(x, y) ==
    from_parts(u64_wrapping_sub(x.hi, y.hi), u64_wrapping_sub(x.lo, y.lo))

wrapping_sub(x, y) ==
    LET r == u64_overflowing_sub(x.lo, y.lo)
        lo == r[1]
        borrow == r[2]
        hi1 == u64_wrapping_sub(x.hi, y.hi)
        hi == u64_wrapping_sub(hi1, BoolToU64(borrow))
    IN  from_parts(hi, lo)

\* overflowing_add reporting only the carry of its last addition
overflowing_add_last_carry(x, y) ==
    LET r0 == u64_overflowing_add(x.lo, y.lo)
        r1 == u64_overflowing_add(x.hi, BoolToU64(r0[2]))
        r2 == u64_overflowing_add(r1[1], y.hi)
    IN  <<from_parts(r2[1], r0[1]), r2[2]>>

overflowing_add(x, y) ==
    LET r0 == u64_overflowing_add(x.lo, y.lo)
        lo == r0[1]
        lo_carry == r0[2]
        r1 == u64_overflowing_add(x.hi, BoolToU64(lo_carry))
        hi_carry_1 == r1[2]
        r2 == u64_overflowing_add(r1[1], y.hi)
        hi == r2[1]
        hi_carry_2 == r2[2]
    IN  <<from_parts(hi, lo), hi_carry_1 \/ hi_carry_2>>

\* overflowing_sub reporting only the borrow of its last subtraction
overflowing_sub_last_borrow(x, y) ==
    LET r0 == u64_overflowing_sub(x.lo, y.lo)
        r1 == u64_overflowing_sub(x.hi, BoolToU64(r0[2]))
        r2 == u64_overflowing_sub(r1[1], y.hi)
    IN  <<from_parts(r2[1], r0[1]), r2[2]>>

overflowing_sub(x, y) ==
    LET r0 == u64_overflowing_sub(x.lo, y.lo)
        lo == r0[1]
        lo_borrow == r0[2]
        r1 == u64_overflowing_sub(x.hi, BoolToU64(lo_borrow))
        hi_borrow_1 == r1[2]
        r2 == u64_overflowing_sub(r1[1], y.hi)
        hi == r2[1]
        hi_borrow_2 == r2[2]
    IN  <<from_parts(hi, lo), hi_borrow_1 \/ hi_borrow_2>>

\* forward_symmetric!(Add(add, checked_add, wrapping_add, overflowing_add))
checked_add(x, y) ==
    LET r == overflowing_add(x, y) IN IF r[2] THEN None ELSE Some(r[1])

\* forward_symmetric!(Sub(sub, checked_sub, wrapping_sub, overflowing_sub))
checked_sub(x, y) ==
    LET r == overflowing_sub(x, y) IN IF r[2] THEN None ELSE Some(r[1])

\* the panicking operator of forward_symmetric!: the checked result, or a
\* panic with the message the tests expect
OrOverflowPanic(o) ==
    IF o.tag = "Some" THEN Value(o.val)
    ELSE Panic("arithmetic operation overflowed")

add(x, y) == OrOverflowPanic(checked_add(x, y))

sub(x, y) == OrOverflowPanic(checked_sub(x, y))

saturating_add(x, y) == unwrap_or(checked_add(x, y), MAX)

\* saturating_sub with the comparison the wrong way round
saturating_sub_swapped(x, y) ==
    IF LessEq(y, x) THEN ZERO ELSE wrapping_sub(x, y)

saturating_sub(x, y) ==
    IF LessEq(x, y) THEN ZERO ELSE wrapping_sub(x, y)

wrapping_neg(x) == wrapping_add(ONE, not(x))

\* impl Saturating for u128
Saturating_saturating_add(x, y) == saturating_add(x, y)

Saturating_saturating_sub(x, y) == saturating_add(x, y)

-----------------------------------------------------------------------------
(* Mul                                                                     *)

\* the terms of u64_long_mul with the carry of the middle sum dropped
u64_long_mul_terms_no_carry(left, right) ==
    LET a_ == u64_shr_32(left)
        b_ == u64_and_ffffffff(left)
        c_ == u64_shr_32(right)
        d_ == u64_and_ffffffff(right)
        r == u64_overflowing_add(u64_wrapping_mul(a_, d_),
                                 u64_wrapping_mul(b_, c_))
    IN  [a |-> a_, b |-> b_, c |-> c_, d |-> d_,
         lo |-> u64_wrapping_mul(b_, d_), mid |-> r[1], carry |-> r[2],
         hi |-> u64_wrapping_mul(a_, c_)]

\* the local values of the portable u64_long_mul (the cfg(not(x86_64,
\* unstable)) build)
u64_long_mul_terms(left, right) ==
    LET a_ == u64_shr_32(left)
        b_ == u64_and_ffffffff(left)
        c_ == u64_shr_32(right)
        d_ == u64_and_ffffffff(right)
        r == u64_overflowing_add(u64_wrapping_mul(a_, d_),
                                 u64_wrapping_mul(b_, c_))
    IN  [a |-> a_, b |-> b_, c |-> c_, d |-> d_,
         lo |-> u64_wrapping_mul(b_, d_), mid |-> r[1], carry |-> r[2],
         hi |-> u64_wrapping_add(u64_wrapping_mul(a_, c_),
                                 IF r[2] THEN U64(0, 1, 0, 0) ELSE u64_ZERO)]

\* the portable u64_long_mul: its last line, on the values above
u64_long_mul(left, right) ==
    LET t == u64_long_mul_terms(left, right)
    IN  wrapping_add(from_parts(t.hi, t.lo),
                     from_parts(u64_shr_32(t.mid), u64_shl_32(t.mid)))

\* wrapping_mul without the cross product self.lo * other.hi
wrapping_mul_no_bc(x, y) ==
    LET low == u64_long_mul(x.lo, y.lo)
    IN  from_parts(u64_wrapping_add(low.hi, u64_wrapping_mul(x.hi, y.lo)),
                   low.lo)

\* wrapping_mul without the cross product self.hi * other.lo
wrapping_mul_no_ad(x, y) ==
    LET low == u64_long_mul(x.lo, y.lo)
    IN  from_parts(u64_wrapping_add(low.hi, u64_wrapping_mul(x.lo, y.hi)),
                   low.lo)

wrapping_mul(x, y) ==
    LET a_ == x.hi
        b_ == x.lo
        c_ == y.hi
        d_ == y.lo
        low == u64_long_mul(b_, d_)
        ad == u64_wrapping_mul(a_, d_)
        bc == u64_wrapping_mul(b_, c_)
    IN  from_parts(u64_wrapping_add(u64_wrapping_add(low.hi, ad), bc), low.lo)

\* overflowing_mul that ignores the overflow of adding the cross terms into
\* the high limb
overflowing_mul_no_add_overflow(x, y) ==
    LET m == IF y.hi = u64_ZERO THEN u64_overflowing_mul(x.hi, y.lo)
             ELSE IF x.hi = u64_ZERO THEN u64_overflowing_mul(y.hi, x.lo)
             ELSE <<u64_wrapping_add(u64_wrapping_mul(x.hi, y.lo),
                                     u64_wrapping_mul(y.hi, x.lo)), TRUE>>
        low == u64_long_mul(x.lo, y.lo)
    IN  <<from_parts(u64_wrapping_add(low.hi, m[1]), low.lo), m[2]>>

overflowing_mul(x, y) ==
    LET a_ == x.hi
        b_ == x.lo
        c_ == y.hi
        d_ == y.lo
        m == IF c_ = u64_ZERO THEN u64_overflowing_mul(a_, d_)
             ELSE IF a_ = u64_ZERO THEN u64_overflowing_mul(c_, b_)
             ELSE <<u64_wrapping_add(u64_wrapping_mul(a_, d_),
                                     u64_wrapping_mul(c_, b_)), TRUE>>
        hi_overflow_mul == m[2]
        low == u64_long_mul(b_, d_)
        s == u64_overflowing_add(low.hi, m[1])
        hi_overflow_add == s[2]
    IN  <<from_parts(s[1], low.lo), hi_overflow_mul \/ hi_overflow_add>>

\* forward_symmetric!(Mul(mul, checked_mul, wrapping_mul, overflowing_mul))
checked_mul(x, y) ==
    LET r == overflowing_mul(x, y) IN IF r[2] THEN None ELSE Some(r[1])

mul(x, y) == OrOverflowPanic(checked_mul(x, y))

saturating_mul(x, y) == unwrap_or(checked_mul(x, y), MAX)

\* wrapping_mul_64 without the product of the high limb
wrapping_mul_64_no_hi(x, other) ==
    LET low == u64_long_mul(x.lo, other)
    IN  from_parts(low.hi, low.lo)

\* other is a u64
wrapping_mul_64(x, other) ==
    LET low == u64_long_mul(x.lo, other)
    IN  from_parts(u64_wrapping_add(low.hi, u64_wrapping_mul(x.hi, other)),
                   low.lo)

\* overflowing_mul_64 that ignores the overflow of adding the cross term into
\* the high limb
overflowing_mul_64_no_add_overflow(x, other) ==
    LET low == u64_long_mul(x.lo, other)
        m == u64_overflowing_mul(x.hi, other)
    IN  <<from_parts(u64_wrapping_add(low.hi, m[1]), low.lo), m[2]>>

overflowing_mul_64(x, other) ==
    LET low == u64_long_mul(x.lo, other)
        m == u64_overflowing_mul(x.hi, other)
        hi_overflow_mul == m[2]
        s == u64_overflowing_add(low.hi, m[1])
        hi_overflow_add == s[2]
    IN  <<from_parts(s[1], low.lo), hi_overflow_mul \/ hi_overflow_add>>

\* forward_symmetric!(Mul<u64>(mul, checked_mul_64, wrapping_mul_64,
\* overflowing_mul_64))
checked_mul_64(x, other) ==
    LET r == overflowing_mul_64(x, other) IN IF r[2] THEN None ELSE Some(r[1])

mul_64(x, other) == OrOverflowPanic(checked_mul_64(x, other))

saturating_mul_64(x, other) == unwrap_or(checked_mul_64(x, other), MAX)

-----------------------------------------------------------------------------
(* Div, Rem                                                                *)

\* x / y and x % y of two u64, y nonzero
u64_div(x, y) == NatDivMod(x, y)[1]

u64_rem(x, y) == NatDivMod(x, y)[2]

\* the 128-by-64 division step: quotient and remainder of hi * 2^64 + lo by
\* d, for hi < d
udiv128by64(hi, lo, d) ==
    LET qr == NatDivMod(lo \o hi, d \o u64_ZERO)
    IN  <<Low(qr[1], 8), Low(qr[2], 8)>>

\* compiler_rt::udivmod128, in its three regimes
udivmod128(numerator, denominator) ==
    IF denominator.hi = u64_ZERO /\ numerator.hi = u64_ZERO
    THEN <<new(u64_div(numerator.lo, denominator.lo)),
           new(u64_rem(numerator.lo, denominator.lo))>>
    ELSE IF denominator.hi = u64_ZERO
    THEN LET q_hi == u64_div(numerator.hi, denominator.lo)
             r_hi == u64_rem(numerator.hi, denominator.lo)
             low == udiv128by64(r_hi, numerator.lo, denominator.lo)
         IN  <<from_parts(q_hi, low[1]), new(low[2])>>
    ELSE LET qr == NatDivMod(ToNat(numerator), ToNat(denominator))
         IN  <<FromNat(qr[1]), FromNat(qr[2])>>

udiv128(numerator, denominator) == udivmod128(numerator, denominator)[1]

umod128(numerator, denominator) == udivmod128(numerator, denominator)[2]

\* checked_div that tests the dividend, not the divisor, against ZERO
checked_div_zero_dividend(x, y) ==
    IF x = ZERO THEN None ELSE Some(udiv128(x, y))

checked_div(x, y) ==
    IF y = ZERO THEN None ELSE Some(udiv128(x, y))

\* checked_rem that returns the quotient
checked_rem_as_div(x, y) ==
    IF y = ZERO THEN None ELSE Some(udiv128(x, y))

checked_rem(x, y) ==
    IF y = ZERO THEN None ELSE Some(umod128(x, y))

\* self.checked_div(other).unwrap_or_else(|| panic!(...))
wrapping_div(x, y) ==
    LET o == checked_div(x, y)
    IN  IF o.tag = "Some" THEN Value(o.val)
        ELSE Panic("attempted to divide by zero")

wrapping_rem(x, y) ==
    LET o == checked_rem(x, y)
    IN  IF o.tag = "Some" THEN Value(o.val)
        ELSE Panic("attempted remainder with a divisor of zero")

\* (self.wrapping_div(other), false): the panic of wrapping_div goes through
overflowing_div(x, y) ==
    LET w == wrapping_div(x, y)
    IN  IF w.tag = "panic" THEN w ELSE Pair(w.val, FALSE)

\* overflowing_rem that returns the quotient
overflowing_rem_as_div(x, y) ==
    LET w == wrapping_div(x, y)
    IN  IF w.tag = "panic" THEN w ELSE Pair(w.val, FALSE)

overflowing_rem(x, y) ==
    LET w == wrapping_rem(x, y)
    IN  IF w.tag = "panic" THEN w ELSE Pair(w.val, FALSE)

\* impl Div for u128, impl Rem for u128
div(x, y) == wrapping_div(x, y)

rem(x, y) == wrapping_rem(x, y)

\* (quotient, remainder) as the pair of the outcome
div_rem(numerator, denominator) ==
    IF denominator = ZERO THEN Panic("attempted to divide by zero")
    ELSE LET qr == udivmod128(numerator, denominator)
         IN  Pair(qr[1], qr[2])

-----------------------------------------------------------------------------
(* Shl, Shr                                                                *)

\* wrapping_shl without the bits that cross from the low limb to the high
wrapping_shl_no_cross(x, shift) ==
    IF u32_and(shift, U32(64)) # u32_ZERO
    THEN from_parts(u64_wrapping_shl(x.lo, u32_and(shift, U32(63))), u64_ZERO)
    ELSE from_parts(u64_wrapping_shl(x.hi, shift), u64_wrapping_shl(x.lo, shift))

wrapping_shl(x, shift) ==
    IF u32_and(shift, U32(64)) # u32_ZERO
    THEN from_parts(u64_wrapping_shl(x.lo, u32_and(shift, U32(63))), u64_ZERO)
    ELSE LET new_lo == u64_wrapping_shl(x.lo, shift)
             new_hi == u64_wrapping_shl(x.hi, shift)
         IN  IF u32_and(shift, U32(127)) # u32_ZERO
             THEN from_parts(
                      u64_or(new_hi,
                             u64_wrapping_shr(x.lo,
                                 u32_wrapping_sub(U32(64), shift))),
                      new_lo)
             ELSE from_parts(new_hi, new_lo)

wrapping_shr(x, shift) ==
    IF u32_and(shift, U32(64)) # u32_ZERO
    THEN from_parts(u64_ZERO, u64_wrapping_shr(x.hi, u32_and(shift, U32(63))))
    ELSE LET new_hi == u64_wrapping_shr(x.hi, shift)
             new_lo == u64_wrapping_shr(x.lo, shift)
         IN  IF u32_and(shift, U32(127)) # u32_ZERO
             THEN from_parts(
                      new_hi,
                      u64_or(new_lo,
                             u64_wrapping_shl(x.hi,
                                 u32_wrapping_sub(U32(64), shift))))
             ELSE from_parts(new_hi, new_lo)

\* overflowing_shl that reports an overflow only above 128
overflowing_shl_above_128(x, other) ==
    <<wrapping_shl(x, other), u32_ge(other, U32(129))>>

overflowing_shl(x, other) ==
    <<wrapping_shl(x, other), u32_ge(other, U32(128))>>

overflowing_shr(x, other) ==
    <<wrapping_shr(x, other), u32_ge(other, U32(128))>>

\* forward_shift!(Shl(shl, checked_shl, wrapping_shl, overflowing_shl))
checked_shl(x, other) ==
    LET r == overflowing_shl(x, other) IN IF r[2] THEN None ELSE Some(r[1])

checked_shr(x, other) ==
    LET r == overflowing_shr(x, other) IN IF r[2] THEN None ELSE Some(r[1])

OrShiftPanic(o) ==
    IF o.tag = "Some" THEN Value(o.val)
    ELSE Panic("shift operation overflowed")

shl(x, other) == OrShiftPanic(checked_shl(x, other))

shr(x, other) == OrShiftPanic(checked_shr(x, other))

-----------------------------------------------------------------------------
(* PrimInt                                                                 *)

\* the number of one bits of a byte and of a u64; a count of bits is an
\* integer
ByteCountOnes(v) ==
    BitOf(v, 0) + BitOf(v, 1) + BitOf(v, 2) + BitOf(v, 3)
    + BitOf(v, 4) + BitOf(v, 5) + BitOf(v, 6) + BitOf(v, 7)

u64_count_ones(x) ==
    ByteCountOnes(x[1]) + ByteCountOnes(x[2]) + ByteCountOnes(x[3])
    + ByteCountOnes(x[4]) + ByteCountOnes(x[5]) + ByteCountOnes(x[6])
    + ByteCountOnes(x[7]) + ByteCountOnes(x[8])

count_ones(x) == u64_count_ones(x.lo) + u64_count_ones(x.hi)

\* u64::leading_zeros: the zero digits above the most significant nonzero
\* digit and the zero bits at its top; 64 for 0
u64_leading_zeros(x) ==
    IF x = u64_ZERO THEN 64
    ELSE LET i == CHOOSE i \in 1..8 :
                      x[i] # 0 /\ \A j \in (i + 1)..8 : x[j] = 0
             z == CHOOSE z \in 0..7 :
                      (2 ^ (7 - z)) <= x[i] /\ x[i] < (2 ^ (8 - z))
         IN  8 * (8 - i) + z

\* u64::trailing_zeros: the zero digits below the least significant nonzero
\* digit and the zero bits at its bottom; 64 for 0
u64_trailing_zeros(x) ==
    IF x = u64_ZERO THEN 64
    ELSE LET i == CHOOSE i \in 1..8 :
                      x[i] # 0 /\ \A j \in 1..(i - 1) : x[j] = 0
             z == CHOOSE z \in 0..7 :
                      x[i] % (2 ^ z) = 0 /\ BitOf(x[i], z) = 1
         IN  8 * (i - 1) + z

\* leading_zeros that tests the low limb against 0
leading_zeros_test_lo(x) ==
    IF x.lo = u64_ZERO THEN 64 + u64_leading_zeros(x.lo)
    ELSE u64_leading_zeros(x.hi)

leading_zeros(x) ==
    IF x.hi = u64_ZERO THEN 64 + u64_leading_zeros(x.lo)
    ELSE u64_leading_zeros(x.hi)

trailing_zeros(x) ==
    IF x.lo = u64_ZERO THEN 64 + u64_trailing_zeros(x.hi)
    ELSE u64_trailing_zeros(x.lo)

\* rotate_left that never swaps the limbs
rotate_left_no_swap(x, shift) ==
    LET n32 == u32_and(shift, U32(63))
    IN  IF n32 = u32_ZERO THEN x
        ELSE [lo |-> u64_or(u64_shl(x.lo, n32),
                            u64_shr(x.hi, u32_wrapping_sub(U32(64), n32))),
              hi |-> u64_or(u64_shl(x.hi, n32),
                            u64_shr(x.lo, u32_wrapping_sub(U32(64), n32)))]

rotate_left(x, shift) ==
    LET n32 == u32_and(shift, U32(63))
        rotated ==
            IF n32 = u32_ZERO THEN x
            ELSE [lo |-> u64_or(u64_shl(x.lo, n32),
                                u64_shr(x.hi, u32_wrapping_sub(U32(64), n32))),
                  hi |-> u64_or(u64_shl(x.hi, n32),
                                u64_shr(x.lo, u32_wrapping_sub(U32(64), n32)))]
    IN  IF u32_and(shift, U32(64)) = u32_ZERO THEN rotated
        ELSE [lo |-> rotated.hi, hi |-> rotated.lo]

rotate_right(x, shift) == rotate_left(x, u32_wrapping_sub(U32(128), shift))

\* exp > 1, (exp & 1) == 1, exp / 2, exp == 1 on a u32
u32_gt(x, y) == NatLess(y, x)

u32_div(x, y) == NatDivMod(x, y)[1]

\* forward_assign!(MulAssign(mul_assign, mul)): the new value of the left
\* operand, or the panic of mul
mul_assign(x, y) == mul(x, y)

\* The locals after one turn of the loop, acc1 and base1 being the outcomes
\* of the two multiplications: panic is set, and the turn left, when one of
\* them overflows.
pow_turn_locals(st, acc1, base1) ==
    IF acc1.tag = "panic" \/ base1.tag = "panic" THEN [st EXCEPT !.panic = TRUE]
    ELSE [base |-> base1.val, acc |-> acc1.val,
          exp |-> u32_div(st.exp, U32(2)), panic |-> FALSE]

\* one turn of the loop of pow with the test of the low bit of exp inverted
pow_turn_even_bit(st) ==
    pow_turn_locals(st,
                    IF u32_and(st.exp, U32(1)) # U32(1)
                    THEN mul_assign(st.acc, st.base) ELSE Value(st.acc),
                    mul_assign(st.base, st.base))

\* One turn of the loop of pow on the locals base, acc and exp:
\* if (exp & 1) == 1 { acc *= base }; exp /= 2; base *= base
pow_turn(st) ==
    pow_turn_locals(st,
                    IF u32_and(st.exp, U32(1)) = U32(1)
                    THEN mul_assign(st.acc, st.base) ELSE Value(st.acc),
                    mul_assign(st.base, st.base))

\* the locals of pow at each test of the loop, from st on
RECURSIVE pow_loop(_)
pow_loop(st) ==
    IF st.panic \/ ~u32_gt(st.exp, U32(1)) THEN <<st>>
    ELSE CHOOSE res \in
             { <<st>> \o pow_loop(st2) : st2 \in {pow_turn(st)} } : TRUE

\* the locals of pow(x, e) at each test of the loop
pow_states(x, e) == pow_loop([base |-> x, acc |-> ONE, exp |-> e, panic |-> FALSE])

\* what pow does once the loop is left with the locals last:
\* if exp == 1 { acc *= base }; acc
pow_after_loop(last) ==
    IF last.panic THEN Panic("arithmetic operation overflowed")
    ELSE IF last.exp = U32(1) THEN mul_assign(last.acc, last.base)
    ELSE Value(last.acc)

\* the last element of a sequence
Last(tr) == tr[Len(tr)]

\* PrimInt::pow
pow(x, e) == pow_after_loop(Last(pow_states(x, e)))

-----------------------------------------------------------------------------
(* Casting.  An i64 is the 8 bytes of its two's complement representation, *)
(* a u8 one byte and a u16 two bytes.                                      *)

\* const i64::MAX as a u64
I64_MAX == <<255, 255, 255, 255, 255, 255, 255, 127>>

\* u64::to_i64 of the standard casts: the same bytes when the value is at
\* most i64::MAX
u64_to_i64(x) == IF NatLess(I64_MAX, x) THEN None ELSE Some(x)

\* n < 0 for an i64
i64_is_negative(n) == n[8] >= 128

\* i64::to_u64: the same bytes when n >= 0
i64_to_u64(n) == IF i64_is_negative(n) THEN None ELSE Some(n)

\* Option::map
map(o, f(_)) == IF o.tag = "Some" THEN Some(f(o.val)) ELSE None

u8_as_u64(x) == x \o Zeros(7)

u16_as_u64(x) == x \o Zeros(6)

\* the tuple struct i128 around a u128
i128(x) == [bits |-> x]

\* to_i64 that keeps lo whenever hi == 0
to_i64_unchecked_sign(x) ==
    IF x.hi # u64_ZERO THEN None ELSE Some(x.lo)

\* impl ToPrimitive for u128
to_i64(x) ==
    IF x.hi # u64_ZERO THEN None ELSE u64_to_i64(x.lo)

to_u64(x) ==
    IF x.hi # u64_ZERO THEN None ELSE Some(x.lo)

\* impl FromPrimitive for u128
from_u64(n) == Some(new(n))

from_i64(n) == map(i64_to_u64(n), new)

\* impl ToExtraPrimitive for u128
to_u128(x) == Some(x)

to_i128(x) ==
    IF ~NatLess(x.hi, <<0, 0, 0, 0, 0, 0, 0, 128>>) THEN None ELSE Some(i128(x))

\* impl From<u8>, From<u16>, From<u32>, From<u64> for u128
from_u8(n) == new(u8_as_u64(n))

from_u16(n) == new(u16_as_u64(n))

from_u32(n) == new(u32_as_u64(n))

from(n) == new(n)

-----------------------------------------------------------------------------
(* FromStr, FromStrRadix                                                   *)

\* the characters char::to_digit takes as digits: '0' to '9', then the
\* letters, in either case
DigitChars ==
    <<"0", "1", "2", "3", "4", "5", "6", "7", "8", "9", "a", "b", "c", "d",
      "e", "f", "g", "h", "i", "j", "k", "l", "m", "n", "o", "p", "q", "r",
      "s", "t", "u", "v", "w", "x", "y", "z">>

UpperChars ==
    <<"A", "B", "C", "D", "E", "F", "G", "H", "I", "J", "K", "L", "M", "N",
      "O", "P", "Q", "R", "S", "T", "U", "V", "W", "X", "Y", "Z">>

\* the value of the character ch as a digit, and 36 for any other character
CharValue(ch) ==
    IF \E i \in 1..36 : DigitChars[i] = ch
    THEN (CHOOSE i \in 1..36 : DigitChars[i] = ch) - 1
    ELSE IF \E i \in 1..26 : UpperChars[i] = ch
    THEN (CHOOSE i \in 1..26 : UpperChars[i] = ch) + 9
    ELSE 36

\* a to_digit that takes every digit character, whatever the radix
to_digit_any_radix(ch, radix) ==
    IF CharValue(ch) < 36 THEN Some(U32(CharValue(ch))) ELSE None

\* char::to_digit for a radix of at most 36, the digit being a u32
to_digit(ch, radix) ==
    IF CharValue(ch) < radix[1] THEN Some(U32(CharValue(ch))) ELSE None

\* the kinds of error::EMPTY, error::INVALID_DIGIT and error::OVERFLOW
error_EMPTY == "Empty"

error_INVALID_DIGIT == "InvalidDigit"

error_OVERFLOW == "Overflow"

\* Result<u128, ParseIntError>
Ok(v) == [tag |-> "Ok", val |-> v, flag |-> FALSE, msg |-> ""]

Err(e) == [tag |-> "Err", val |-> ZERO, flag |-> FALSE, msg |-> e]

\* "{}" of a u32 below 2^16, as the radixes drawn are
RECURSIVE FormatSmall(_)
FormatSmall(v) ==
    IF v < 10 THEN DigitChars[v + 1]
    ELSE FormatSmall(v \div 10) \o DigitChars[(v % 10) + 1]

\* the message of the assertion on the radix (its two backquotes, which a
\* TLA+ string cannot hold, are left out)
RadixPanic(radix) ==
    Panic("from_str_radix_int: must lie in the range [2, 36] - found "
          \o FormatSmall(radix[1] + 256 * radix[2]))

\* the end of the body of the loop: try!(checked_add ...) on its outcome
from_str_radix_sum(sum) ==
    IF sum.tag = "None" THEN Err(error_OVERFLOW) ELSE Value(sum.val)

\* the body of the loop with the overflow of the multiplication tested
\* before the digit
from_str_radix_digit_overflow_first(digit, int_result) ==
    IF int_result.tag = "None" THEN Err(error_OVERFLOW)
    ELSE IF digit.tag = "None" THEN Err(error_INVALID_DIGIT)
    ELSE from_str_radix_sum(checked_add(int_result.val, new(u32_as_u64(digit.val))))

\* The body of the loop on the outcomes of to_digit and of checked_mul: the
\* digit is tested first, then the product, then the sum.
from_str_radix_digit(digit, int_result) ==
    IF digit.tag = "None" THEN Err(error_INVALID_DIGIT)
    ELSE IF int_result.tag = "None" THEN Err(error_OVERFLOW)
    ELSE from_str_radix_sum(checked_add(int_result.val, new(u32_as_u64(digit.val))))

from_str_radix_step_overflow_first(result, ch, radix) ==
    from_str_radix_digit_overflow_first(to_digit(ch, radix),
                                        checked_mul(result, new(u32_as_u64(radix))))

\* the body of the loop with both checked steps replaced by wrapping ones
from_str_radix_digit_wrapping(digit, product) ==
    IF digit.tag = "None" THEN Err(error_INVALID_DIGIT)
    ELSE Value(wrapping_add(product, new(u32_as_u64(digit.val))))

from_str_radix_step_wrapping(result, ch, radix) ==
    from_str_radix_digit_wrapping(to_digit(ch, radix),
                                  wrapping_mul(result, new(u32_as_u64(radix))))

\* The body of the loop of from_str_radix, for the character ch: the error
\* that try! returns, or the new value of result.
from_str_radix_step(result, ch, radix) ==
    from_str_radix_digit(to_digit(ch, radix),
                         checked_mul(result, new(u32_as_u64(radix))))

\* the characters of s read at once by the operators below
ParseBlock == 8

\* the loop of from_str_radix over the characters i..last of s, from the
\* outcome st of the turns before: an error ends it
RECURSIVE from_str_radix_chars(_, _, _, _, _)
from_str_radix_chars(st, s, i, last, radix) ==
    IF i > last \/ st.tag = "Err" THEN st
    ELSE CHOOSE res \in
             { from_str_radix_chars(r, s, i + 1, last, radix) :
                   r \in {from_str_radix_step(st.val, s[i], radix)} } : TRUE

\* the loop of from_str_radix from the block k of characters of s on
RECURSIVE from_str_radix_loop(_, _, _, _)
from_str_radix_loop(st, s, k, radix) ==
    LET first == ParseBlock * (k - 1) + 1
        last == IF ParseBlock * k < Len(s) THEN ParseBlock * k ELSE Len(s)
    IN  IF first > Len(s) THEN (IF st.tag = "Err" THEN st ELSE Ok(st.val))
        ELSE CHOOSE res \in
                 { from_str_radix_loop(st2, s, k + 1, radix) :
                       st2 \in {from_str_radix_chars(st, s, first, last, radix)} } :
                 TRUE

from_str_radix(s, radix) ==
    IF ~(u32_ge(radix, U32(2)) /\ u32_ge(U32(36), radix)) THEN RadixPanic(radix)
    ELSE IF Len(s) = 0 THEN Err(error_EMPTY)
    ELSE from_str_radix_loop(Value(ZERO), s, 1, radix)

\* impl FromStr for u128
from_str(s) == from_str_radix(s, U32(10))

-----------------------------------------------------------------------------
(* Binary, LowerHex, UpperHex, Octal, Display                              *)

\* the digits of the upper-case formats
UpperDigitChars == SubSeq(DigitChars, 1, 10) \o UpperChars

\* The quotient and the remainder of the bytes k.. of x by a small divisor
\* d, by short division from the top byte down: << quotient, remainder >>.
RECURSIVE NatDivSmallFrom(_, _, _)
NatDivSmallFrom(x, d, k) ==
    IF k > Len(x) THEN << <<>>, 0 >>
    ELSE CHOOSE res \in
             { << <<(256 * up[2] + x[k]) \div d>> \o up[1],
                  (256 * up[2] + x[k]) % d >> :
                   up \in {NatDivSmallFrom(x, d, k + 1)} } : TRUE

\* the number of digits written at once for a base: base ^ GroupDigits(base)
\* is below 2^23
GroupDigits(base) ==
    CASE base = 2 -> 16
      [] base = 8 -> 7
      [] base = 10 -> 6
      [] base = 16 -> 5

\* the m digits of v in the given base, for v < base ^ m
RECURSIVE GroupFmt(_, _, _, _)
GroupFmt(v, base, m, table) ==
    IF m = 0 THEN <<>>
    ELSE GroupFmt(v \div base, base, m - 1, table) \o <<table[(v % base) + 1]>>

\* the digits of x in the given base, m at a time, with zeros in front
RECURSIVE u64_fmt_groups(_, _, _, _)
u64_fmt_groups(x, base, m, table) ==
    CHOOSE res \in
        { (IF IsZeroNat(qr[1]) THEN <<>>
           ELSE u64_fmt_groups(qr[1], base, m, table))
              \o GroupFmt(qr[2], base, m, table) :
              qr \in {NatDivSmallFrom(x, base ^ m, 1)} } : TRUE

\* digits without the zeros in front, "0" when all of them are zeros
StripZeros(digits) ==
    LET nz == { i \in 1..Len(digits) : digits[i] # "0" }
    IN  IF nz = {} THEN <<"0">>
        ELSE SubSeq(digits, CHOOSE i \in nz : \A k \in nz : i <= k, Len(digits))

\* The digits that the integer formatting of the standard library writes
\* for a u64 in the given base, the most significant first and no zero in
\* front: the remainders of the successive divisions by the base.
u64_fmt_radix(x, base, table) ==
    CHOOSE res \in
        { StripZeros(d) :
              d \in {u64_fmt_groups(x, base, GroupDigits(base), table)} } : TRUE

\* sixty-four "0"
ZeroFill ==
    <<"0", "0", "0", "0", "0", "0", "0", "0", "0", "0", "0", "0", "0", "0",
      "0", "0", "0", "0", "0", "0", "0", "0", "0", "0", "0", "0", "0", "0",
      "0", "0", "0", "0", "0", "0", "0", "0", "0", "0", "0", "0", "0", "0",
      "0", "0", "0", "0", "0", "0", "0", "0", "0", "0", "0", "0", "0", "0",
      "0", "0", "0", "0", "0", "0", "0", "0">>

\* a width that pads nothing
ZeroPadded_ignored(digits, width) == digits

\* the flag 0 with a width, as in {:019}: zeros in front up to the width
ZeroPadded(digits, width) ==
    IF Len(digits) >= width THEN digits
    ELSE SubSeq(ZeroFill, 1, width - Len(digits)) \o digits

\* {} , {:b}, {:o}, {:x}, {:X} of a u64
u64_fmt_display(x) == u64_fmt_radix(x, 10, DigitChars)

u64_fmt_binary(x) == u64_fmt_radix(x, 2, DigitChars)

u64_fmt_octal(x) == u64_fmt_radix(x, 8, DigitChars)

u64_fmt_lower_hex(x) == u64_fmt_radix(x, 16, DigitChars)

u64_fmt_upper_hex(x) == u64_fmt_radix(x, 16, UpperDigitChars)

\* const TEN19: 10000000000000000000
TEN19 == from_parts(u64_ZERO, U64(\h8AC7, \h2304, \h89E8, \h0000))

\* the three chunks, from the second division d2 and the lowest chunk lo
display_chunks_of_three(d2, lo) == <<d2.val, d2.flag, lo>>

\* the chunks after the first division d1 == div_rem(x, TEN19)
display_chunks_after(d1) ==
    IF d1.val.hi = u64_ZERO THEN <<d1.val, d1.flag>>
    ELSE display_chunks_of_three(div_rem(d1.val, TEN19), d1.flag)

\* The values that fmt::Display formats: self when hi == 0, else the two
\* or three quotients and remainders of the divisions by TEN19, the most
\* significant first.
display_chunks(x) ==
    IF x.hi = u64_ZERO THEN <<x>> ELSE display_chunks_after(div_rem(x, TEN19))

\* the chunks written with the middle one of three without its zeros
fmt_chunks_mid_unpadded(ch) ==
    IF Len(ch) = 1 THEN u64_fmt_display(ch[1].lo)
    ELSE IF Len(ch) = 2
    THEN u64_fmt_display(ch[1].lo) \o ZeroPadded(u64_fmt_display(ch[2].lo), 19)
    ELSE u64_fmt_display(ch[1].lo)
             \o u64_fmt_display(ch[2].lo)
             \o ZeroPadded(u64_fmt_display(ch[3].lo), 19)

\* the chunks as Display writes them: {} for the first, {:019} for the others
fmt_chunks(ch) ==
    IF Len(ch) = 1 THEN u64_fmt_display(ch[1].lo)
    ELSE IF Len(ch) = 2
    THEN u64_fmt_display(ch[1].lo) \o ZeroPadded(u64_fmt_display(ch[2].lo), 19)
    ELSE u64_fmt_display(ch[1].lo)
             \o ZeroPadded(u64_fmt_display(ch[2].lo), 19)
             \o ZeroPadded(u64_fmt_display(ch[3].lo), 19)

\* Display with the middle chunk of three written without its zeros
fmt_display_mid_unpadded(x) == fmt_chunks_mid_unpadded(display_chunks(x))

\* impl fmt::Display for u128, with a formatter without flags: pad_integral
\* then writes core_string as it is
fmt_display(x) == fmt_chunks(display_chunks(x))

\* impl fmt::Binary for u128
fmt_binary(x) ==
    IF x.hi = u64_ZERO THEN u64_fmt_binary(x.lo)
    ELSE u64_fmt_binary(x.hi) \o ZeroPadded(u64_fmt_binary(x.lo), 64)

\* impl fmt::LowerHex for u128
fmt_lower_hex(x) ==
    IF x.hi = u64_ZERO THEN u64_fmt_lower_hex(x.lo)
    ELSE u64_fmt_lower_hex(x.hi) \o ZeroPadded(u64_fmt_lower_hex(x.lo), 16)

\* UpperHex without the fast path for hi == 0
fmt_upper_hex_always_two(x) ==
    u64_fmt_upper_hex(x.hi) \o ZeroPadded(u64_fmt_upper_hex(x.lo), 16)

\* impl fmt::UpperHex for u128
fmt_upper_hex(x) ==
    IF x.hi = u64_ZERO THEN u64_fmt_upper_hex(x.lo)
    ELSE u64_fmt_upper_hex(x.hi) \o ZeroPadded(u64_fmt_upper_hex(x.lo), 16)

\* const MASK: u64 = (1 << 63) - 1
OCTAL_MASK == U64(\h7FFF, \hFFFF, \hFFFF, \hFFFF)

u64_and(x, y) == <<ByteAnd(x[1], y[1]), ByteAnd(x[2], y[2]), ByteAnd(x[3], y[3]),
                   ByteAnd(x[4], y[4]), ByteAnd(x[5], y[5]), ByteAnd(x[6], y[6]),
                   ByteAnd(x[7], y[7]), ByteAnd(x[8], y[8])>>

\* the groups of Octal with the middle one taken from hi alone
octal_groups_mid_without_lo(x) ==
    << u64_shr_bits(x.hi, 62),
       u64_and(u64_shl_bits(x.hi, 1), OCTAL_MASK),
       u64_and(x.lo, OCTAL_MASK) >>

\* the three groups of bits of fmt::Octal: << hi, mid, lo >>
octal_groups(x) ==
    << u64_shr_bits(x.hi, 62),
       u64_and(u64_or(u64_shl_bits(x.hi, 1), u64_shr_bits(x.lo, 63)), OCTAL_MASK),
       u64_and(x.lo, OCTAL_MASK) >>

\* the groups << hi, mid, lo >> as Octal writes them: {:o} for the first
\* that is not zero, {:021o} for those after it
fmt_octal_groups(g) ==
    IF g[1] # u64_ZERO
    THEN u64_fmt_octal(g[1]) \o ZeroPadded(u64_fmt_octal(g[2]), 21)
             \o ZeroPadded(u64_fmt_octal(g[3]), 21)
    ELSE IF g[2] # u64_ZERO
    THEN u64_fmt_octal(g[2]) \o ZeroPadded(u64_fmt_octal(g[3]), 21)
    ELSE u64_fmt_octal(g[3])

\* impl fmt::Octal for u128
fmt_octal(x) == fmt_octal_groups(octal_groups(x))

-----------------------------------------------------------------------------
(* Inputs                                                                  *)

\* the number of limb samples the operands a and b are built from
NumLimbs == 5

\* the number of limb samples the third operand c is built from
NumThirdLimbs == 2

\* 0, 1, 2^64 - 1, 2^63, a limb of test_wrapping_overflowing_add, 2^32 - 1, 2^32
LimbSamples ==
    << u64_ZERO,
       u64_ONE,
       u64_MAX,
       U64(\h8000, 0, 0, 0),
       U64(\hFEAE, \h4B29, \h8DF9, \h91AE),
       U64(0, 0, \hFFFF, \hFFFF),
       U64(0, 1, 0, 0) >>

Limbs == {LimbSamples[i] : i \in 1..NumLimbs}

Values == {from_parts(h, l) : h \in Limbs, l \in Limbs}

\* 2^64 - 1, 1, a limb of test_wrapping_overflowing_mul
ThirdSamples == << u64_MAX, u64_ONE, U64(\h50F5, \hD9A7, \h2DD7, \h04F3) >>

ThirdLimbs == {ThirdSamples[i] : i \in 1..NumThirdLimbs}

Thirds == {from_parts(h, l) : h \in ThirdLimbs, l \in ThirdLimbs}

\* the operands of add_sub_tests::test_wrapping_overflowing_add
TestAddA ==
    from_parts(U64(\hFEAE, \h4B29, \h8DF9, \h91AE),
               U64(\h21B6, \hC7C3, \h7669, \h08A7))

TestAddB ==
    from_parts(U64(\h08A4, \h5EEF, \h1678, \h1327),
               U64(\hFF10, \h49DD, \hF49F, \hF8A8))

TestAddC ==
    from_parts(U64(\h0752, \hAA18, \hA471, \hA4D6),
               U64(\h20C7, \h11A1, \h6B09, \h014F))

\* the operands of add_sub_tests::test_wrapping_overflowing_sub
TestSubA ==
    from_parts(U64(\h3179, \hEE10, \h9740, \h51B0),
               U64(\hD9B5, \h14F9, \hE8EC, \h50E3))

TestSubB ==
    from_parts(U64(\h3DA6, \hA691, \h87CD, \h33F9),
               U64(\hEFBF, \hCA78, \hE559, \h74C3))

TestSubC ==
    from_parts(U64(\hF3D3, \h477F, \h0F73, \h1DB6),
               U64(\hE9F5, \h4A81, \h0392, \hDC20))

\* the operands of mul_tests::test_wrapping_overflowing_mul
TestMulA ==
    from_parts(U64(\hC1B2, \h7561, \hC3E6, \h3BAD),
               U64(\h53B0, \hAD36, \h4EE5, \h97DC))

TestMulB ==
    from_parts(U64(\h50F5, \hD9A7, \h2DD7, \h04F3),
               U64(\h5ECE, \hE7A3, \h8577, \hDF37))

TestMulC ==
    from_parts(U64(\hF565, \h1B24, \h2708, \h2A5E),
               U64(\h0052, \hAF17, \hD5E0, \h4444))

TestMul2A ==
    from_parts(U64(\hD3DE, \h6070, \hEC60, \hA783),
               U64(\h6C94, \h1937, \h4C7B, \h908C))

TestMul2B == new(U64(\h7656, \h6883, \h5A35, \h8D9F))

TestMul2C ==
    from_parts(U64(\hD06C, \hDCF7, \h9E88, \hFD76),
               U64(\h1831, \h3C82, \hB457, \hE2F4))

\* the operands of mul_tests::test_mul and test_mul_64
TestMul3A == new(U64(\h56EE, \h2014, \h75CA, \h8D35))

TestMul3B == new(U64(\h1F68, \h7204, \h26A0, \hD917))

TestMul3C ==
    from_parts(U64(\h0AAA, \h4D56, \hF5B2, \hF577),
               U64(\h916F, \hB811, \h6604, \h9CC3))

\* the second operands of mul_tests::test_mul_64, and its product
TestMul64A ==
    from_parts(U64(\h0000, \h000B, \h2C1B, \h2449),
               U64(\h2B63, \hDED0, \h5711, \h655C))

TestMul64B == new(U64(\h0000, \h0000, \h1341, \h7881))

TestMul64C ==
    from_parts(U64(\hD721, \h78E3, \h977C, \h031A),
               U64(\hB721, \h55BC, \h97A3, \h335C))

TWO == new(U64(0, 0, 0, 2))

\* operand pairs of the source's tests that the limb samples do not build
TestPairs ==
    { <<TestAddA, TestAddB>>, <<TestSubA, TestSubB>>, <<TestSubB, TestSubA>>,
      <<TestMulA, TestMulB>>, <<TestMul2A, TestMul2B>>, <<TestMul2B, TestMul2A>>,
      <<TestMul3A, TestMul3B>>, <<TestMul64A, TestMul64B>>, <<MAX, TWO>>,
      <<from_parts(U64(\hFFFF, \hFFFF, \hFFFF, \hFFFE), u64_MAX), ONE>>,
      <<from_parts(u64_MAX, u64_ONE), from_parts(u64_MAX, U64(0, 0, 0, 2))>> }

Operands == (Values \X Values) \cup TestPairs

\* the limbs of the operands of the divisions
NumDivLimbs == 3

DivLimbSamples ==
    << u64_ZERO, u64_MAX, U64(0, 0, 0, 3), U64(\h8AC7, \h2304, \h89E8, 0),
       u64_ONE >>

DivLimbs == { DivLimbSamples[i] : i \in 1..NumDivLimbs }

DivValues == { from_parts(h, l) : h \in DivLimbs, l \in DivLimbs }

\* div_rem_tests::test_div and test_rem: dividends, divisors, quotients and
\* remainders
TestDivA ==
    from_parts(U64(\h7DE3, \h513B, \h4853, \h98CA),
               U64(\h8535, \hF065, \hFF2D, \h95FF))

TestDivB == new(U64(\h54C4, \hC9B4, \hC956, \h1D8A))

TestDivQ == from_parts(u64_ONE, U64(\h7C2D, \hEF47, \hBAA2, \h1A06))

TestDivR == new(U64(\h47B4, \hD87B, \h92D4, \hE0C3))

TestDiv2A ==
    from_parts(U64(\h2FE1, \hBF10, \hB4C5, \hF041),
               U64(\hB3C1, \h5AB9, \h65BF, \hF5DD))

TestDiv2B == new(U64(\h8E40, \h743F, \hAACE, \h318E))

TestDiv2Q == new(U64(\h562B, \h5C1D, \hECDE, \h46C2))

TestDiv2R == new(U64(\h4C6F, \h0031, \hB2CD, \h9441))

TestDiv3A ==
    from_parts(U64(\h8F55, \h5E91, \h36CC, \hE58A),
               U64(\h5600, \h3603, \h7AC5, \hB886))

TestDiv3B ==
    from_parts(U64(\h2A59, \hB0A1, \h88C2, \h76CF),
               U64(\h3E9D, \h136B, \h9E77, \h9850))

TestDiv3Q == new(U64(0, 0, 0, 3))

TestDiv3R ==
    from_parts(U64(\h1048, \h4CAC, \h9C85, \h811C),
               U64(\h9A28, \hFBC0, \h9F5E, \hEF96))

\* the operand pairs of div_rem_tests and of test_checked_div
TestDivPairs ==
    { <<TestDivA, TestDivB>>, <<TestDiv2A, TestDiv2B>>, <<TestDiv3A, TestDiv3B>>,
      <<ONE, ONE>>, <<MAX, ONE>>, <<ONE, MAX>>, <<ONE, ZERO>> }

DivOperands == (DivValues \X DivValues) \cup TestDivPairs

\* the shift and rotation amounts
NumShifts == 12

ShiftSamples ==
    << U32(0), U32(1), U32(64), U32(128), U32(120), U32(63), U32(65),
       U32(127), U32(256), U32(3), U32(192), u32_MAX, U32(129), U32(8) >>

Shifts == { ShiftSamples[i] : i \in 1..NumShifts }

\* the operand of shift_tests and of test_rotate, and the second operand of
\* shift_tests
TestShiftX ==
    from_parts(U64(\h1E5C, \h7801, \hB0E5, \h75F7),
               U64(\h53F0, \h9DAC, \h5B28, \hF152))

TestShiftY ==
    from_parts(U64(\hF802, \h5363, \hDDCD, \h51D8),
               U64(\h509D, \h78E4, \hA300, \h8BCD))

\* the shifted and rotated values
NumShiftValues == 6

ShiftValueSamples ==
    << TestShiftX, TestShiftY, MAX, ONE, from_parts(U64(\h8000, 0, 0, 0), u64_ONE),
       ZERO, from_parts(u64_ONE, u64_ZERO) >>

ShiftValues == { ShiftValueSamples[i] : i \in 1..NumShiftValues }

\* the limbs of the values whose zero bits are counted
NumScanLimbs == 8

ScanLimbSamples ==
    << u64_ZERO, u64_ONE, U64(\h8000, 0, 0, 0), U64(0, 0, 0, 4), U64(0, 0, 0, 3),
       u64_MAX, U64(\h001E, \h5C78, 0, 0), U64(0, 1, 0, 0),
       U64(\h53F0, \h9DAC, \h5B28, \hF152) >>

ScanLimbs == { ScanLimbSamples[i] : i \in 1..NumScanLimbs }

ScanValues == { from_parts(h, l) : h \in ScanLimbs, l \in ScanLimbs }

\* the texts of from_str_tests::test_from_str_radix
TestStrMax36 ==
    <<"f", "5", "l", "x", "x", "1", "z", "z", "5", "p", "n", "o", "r", "y",
      "n", "q", "g", "l", "h", "z", "m", "s", "p", "3", "3">>

TestStrOver36 ==
    <<"f", "5", "l", "x", "x", "1", "z", "z", "5", "p", "n", "o", "r", "y",
      "n", "q", "g", "l", "h", "z", "m", "s", "p", "3", "4">>

TestStrOver36b ==
    <<"f", "5", "l", "x", "x", "1", "z", "z", "5", "p", "n", "o", "r", "y",
      "n", "q", "g", "l", "h", "z", "m", "s", "p", "4", "3">>

TestStrV10 ==
    <<"2", "0", "6", "7", "9", "2", "6", "6", "4", "7", "8", "5", "3", "6",
      "5", "3", "7", "2", "1", "8", "5", "6", "6", "2", "2", "0", "5", "0",
      "0", "6", "0", "9", "3", "5", "5", "2", "7", "2", "5">>

TestStrV16 ==
    <<"9", "b", "9", "2", "d", "1", "8", "b", "c", "5", "3", "7", "7", "1",
      "9", "c", "8", "a", "2", "d", "5", "2", "4", "5", "3", "9", "7", "5",
      "0", "c", "5", "5">>

TestStrZeros36 ==
    <<"0", "0", "0", "0", "0", "0", "0", "0", "0", "0", "0", "0", "0", "0",
      "0", "0", "0", "0", "0", "0", "0", "0", "0", "0", "0", "0", "0", "0",
      "0", "0", "0", "0", "0", "0">>

TestStr123 ==
    <<"1", "2", "3">>

TestStrMinus1 ==
    <<"-", "1">>

\* the value v of test_from_str_radix
TestStrV ==
    from_parts(U64(\h9B92, \hD18B, \hC537, \h719C),
               U64(\h8A2D, \h5245, \h3975, \h0C55))

\* texts at the limit of the type: MAX and MAX + 1 in base 10, 2^128 in base
\* 16, and MAX in base 16 in upper case
StrMax10 ==
    <<"3", "4", "0", "2", "8", "2", "3", "6", "6", "9", "2", "0", "9", "3",
      "8", "4", "6", "3", "4", "6", "3", "3", "7", "4", "6", "0", "7", "4",
      "3", "1", "7", "6", "8", "2", "1", "1", "4", "5", "5">>

StrOver10 ==
    <<"3", "4", "0", "2", "8", "2", "3", "6", "6", "9", "2", "0", "9", "3",
      "8", "4", "6", "3", "4", "6", "3", "3", "7", "4", "6", "0", "7", "4",
      "3", "1", "7", "6", "8", "2", "1", "1", "4", "5", "6">>

StrOver16 ==
    <<"1", "0", "0", "0", "0", "0", "0", "0", "0", "0", "0", "0", "0", "0",
      "0", "0", "0", "0", "0", "0", "0", "0", "0", "0", "0", "0", "0", "0",
      "0", "0", "0", "0", "0">>

StrMax16Upper ==
    <<"F", "F", "F", "F", "F", "F", "F", "F", "F", "F", "F", "F", "F", "F",
      "F", "F", "F", "F", "F", "F", "F", "F", "F", "F", "F", "F", "F", "F",
      "F", "F", "F", "F">>

\* the longest text drawn char by char, and the characters it is drawn from
MaxStrLen == 2

StrChars == {"0", "1", "9", "z", "F", "-"}

RECURSIVE StrsOfLen(_)
StrsOfLen(len) ==
    IF len = 0 THEN {<<>>}
    ELSE { t \o <<ch>> : t \in StrsOfLen(len - 1), ch \in StrChars }

ShortStrs == UNION { StrsOfLen(len) : len \in 0..MaxStrLen }

\* the radixes drawn: four valid ones and the two nearest invalid ones
ParseRadixes == { U32(2), U32(10), U32(16), U32(36), U32(1), U32(37) }

ParseInputs ==
    (ShortStrs \X ParseRadixes)
    \cup { <<TestStrMax36, U32(36)>>, <<TestStrOver36, U32(36)>>,
           <<TestStrOver36b, U32(36)>>, <<TestStrV10, U32(10)>>,
           <<TestStrV16, U32(16)>>, <<TestStrZeros36, U32(36)>>,
           <<TestStr123, U32(3)>>, <<TestStrMinus1, U32(10)>>,
           <<StrMax10, U32(10)>>, <<StrOver10, U32(10)>>,
           <<StrOver16, U32(16)>>, <<StrMax16Upper, U32(16)>>,
           <<TestStrOver36 \o <<"-">>, U32(36)>>,
           <<StrOver10 \o <<"a">>, U32(10)>>,
           <<StrMax10 \o <<"a">>, U32(10)>>,
           <<<<"-">> \o StrOver10, U32(10)>>,
           <<<<"+">> \o TestStr123, U32(10)>>,
           <<TestStrV16, U32(10)>>, <<TestStrV10, U32(8)>>,
           <<TestStr123, U32(10)>> }

\* the values of show_tests
TestFmtDec1 ==
    from_parts(U64(\h0000, \h0000, \h0000, \h0000),
               U64(\h92CC, \hFA4D, \h95DF, \h5596))

TestFmtDec2 ==
    from_parts(U64(\h44D3, \h3E90, \h32BB, \h5F89),
               U64(\h00A4, \h9206, \h59FD, \hBB36))

TestFmtDec3 ==
    from_parts(U64(\hA651, \h22E5, \h6B2E, \hED2F),
               U64(\hB3DB, \h2D2A, \hA2A3, \h43DC))

TestFmtTen38 ==
    from_parts(U64(\h4B3B, \h4CA8, \h5A86, \hC47A),
               U64(\h098A, \h2240, \h0000, \h0000))

TestFmtBin1 ==
    from_parts(U64(\h0000, \h0000, \h0000, \h0000),
               U64(\h72CF, \h1CC8, \hA748, \hEB2B))

TestFmtBin2 ==
    from_parts(U64(\hAB75, \h82D5, \hA768, \h8447),
               U64(\h9512, \hC009, \h2991, \h6E9B))

TestFmtPow127 ==
    from_parts(U64(\h8000, \h0000, \h0000, \h0000),
               U64(\h0000, \h0000, \h0000, \h0000))

TestFmtHex1 ==
    from_parts(U64(\h0000, \h0000, \h0000, \h0000),
               U64(\h25C2, \h2F86, \h02EF, \hEDB5))

TestFmtHex2 ==
    from_parts(U64(\h2C73, \hD4B3, \hD1A4, \h6F08),
               U64(\h1A04, \hE1EA, \h9846, \hFAEE))

TestFmtHex3 ==
    from_parts(U64(\h0C00, \h0000, \h0000, \h0000),
               U64(\h0000, \h0000, \h0000, \h0000))

TestFmtOct1 ==
    from_parts(U64(\h0000, \h0000, \h0000, \h0000),
               U64(\h3A66, \h4F63, \h37B8, \h3E78))

TestFmtOct2 ==
    from_parts(U64(\h0000, \h0000, \h0000, \h0003),
               U64(\h8016, \h7980, \h422A, \h1E80))

TestFmtOct3 ==
    from_parts(U64(\hE6A7, \hF34A, \hDF8C, \h8874),
               U64(\hD791, \hC48F, \h6A08, \h685D))

\* what show_tests expects of some of them
TestFmtDec3Text ==
    <<"2", "2", "1", "0", "7", "3", "1", "3", "1", "1", "2", "4", "1", "8",
      "4", "7", "2", "2", "5", "8", "2", "6", "7", "0", "2", "7", "4", "2",
      "1", "6", "9", "9", "4", "2", "2", "7", "1", "6", "4">>

TestFmtTen38Text ==
    <<"1", "0", "0", "0", "0", "0", "0", "0", "0", "0", "0", "0", "0", "0",
      "0", "0", "0", "0", "0", "0", "0", "0", "0", "0", "0", "0", "0", "0",
      "0", "0", "0", "0", "0", "0", "0", "0", "0", "0", "0">>

TestFmtHex2Text ==
    <<"2", "c", "7", "3", "d", "4", "b", "3", "d", "1", "a", "4", "6", "f",
      "0", "8", "1", "a", "0", "4", "e", "1", "e", "a", "9", "8", "4", "6",
      "f", "a", "e", "e">>

TestFmtOct3Text ==
    <<"3", "4", "6", "5", "1", "7", "7", "1", "5", "1", "2", "6", "7", "7",
      "0", "6", "2", "1", "0", "3", "5", "1", "5", "3", "6", "2", "1", "6",
      "1", "1", "0", "7", "5", "5", "2", "0", "2", "0", "6", "4", "1", "3",
      "5">>

TestFmtOctMaxText ==
    <<"3", "7", "7", "7", "7", "7", "7", "7", "7", "7", "7", "7", "7", "7",
      "7", "7", "7", "7", "7", "7", "7", "7", "7", "7", "7", "7", "7", "7",
      "7", "7", "7", "7", "7", "7", "7", "7", "7", "7", "7", "7", "7", "7",
      "7">>

TestFmtBin2Text ==
    <<"1", "0", "1", "0", "1", "0", "1", "1", "0", "1", "1", "1", "0", "1",
      "0", "1", "1", "0", "0", "0", "0", "0", "1", "0", "1", "1", "0", "1",
      "0", "1", "0", "1", "1", "0", "1", "0", "0", "1", "1", "1", "0", "1",
      "1", "0", "1", "0", "0", "0", "1", "0", "0", "0", "0", "1", "0", "0",
      "0", "1", "0", "0", "0", "1", "1", "1", "1", "0", "0", "1", "0", "1",
      "0", "1", "0", "0", "0", "1", "0", "0", "1", "0", "1", "1", "0", "0",
      "0", "0", "0", "0", "0", "0", "0", "0", "1", "0", "0", "1", "0", "0",
      "1", "0", "1", "0", "0", "1", "1", "0", "0", "1", "0", "0", "0", "1",
      "0", "1", "1", "0", "1", "1", "1", "0", "1", "0", "0", "1", "1", "0",
      "1", "1">>

\* values at the limits of the chunks of Display and of the groups of Octal:
\* 10^19 - 1, 10^19, 2^64, 10^38 - 1, 10^19 * 2^64 - 1, 10^19 * 2^64,
\* 2^63 - 1, 2^63, 2^126 - 1, 2^126, 10^20, 2 * 10^38 + 5
FmtEdges ==
    { from_parts(U64(\h0000, \h0000, \h0000, \h0000), U64(\h8AC7, \h2304, \h89E7, \hFFFF)),
      from_parts(U64(\h0000, \h0000, \h0000, \h0000), U64(\h8AC7, \h2304, \h89E8, \h0000)),
      from_parts(U64(\h0000, \h0000, \h0000, \h0001), U64(\h0000, \h0000, \h0000, \h0000)),
      from_parts(U64(\h4B3B, \h4CA8, \h5A86, \hC47A), U64(\h098A, \h223F, \hFFFF, \hFFFF)),
      from_parts(U64(\h8AC7, \h2304, \h89E7, \hFFFF), U64(\hFFFF, \hFFFF, \hFFFF, \hFFFF)),
      from_parts(U64(\h8AC7, \h2304, \h89E8, \h0000), U64(\h0000, \h0000, \h0000, \h0000)),
      from_parts(U64(\h0000, \h0000, \h0000, \h0000), U64(\h7FFF, \hFFFF, \hFFFF, \hFFFF)),
      from_parts(U64(\h0000, \h0000, \h0000, \h0000), U64(\h8000, \h0000, \h0000, \h0000)),
      from_parts(U64(\h3FFF, \hFFFF, \hFFFF, \hFFFF), U64(\hFFFF, \hFFFF, \hFFFF, \hFFFF)),
      from_parts(U64(\h4000, \h0000, \h0000, \h0000), U64(\h0000, \h0000, \h0000, \h0000)),
      from_parts(U64(\h0000, \h0000, \h0000, \h0005), U64(\h6BC7, \h5E2D, \h6310, \h0000)),
      from_parts(U64(\h9676, \h9950, \hB50D, \h88F4), U64(\h1314, \h4480, \h0000, \h0005)) }

\* the number of limb samples the formatted values are built from
NumFmtLimbs == 3

\* 0, 2^64 - 1, 1, 10^19, 2^62
FmtLimbSamples ==
    << u64_ZERO,
       u64_MAX,
       u64_ONE,
       U64(\h8AC7, \h2304, \h89E8, \h0000),
       U64(\h4000, \h0000, \h0000, \h0000) >>

FmtLimbs == {FmtLimbSamples[i] : i \in 1..NumFmtLimbs}

FmtValues ==
    {from_parts(h, l) : h \in FmtLimbs, l \in FmtLimbs}
    \cup FmtEdges
    \cup { TestFmtDec1, TestFmtDec2, TestFmtDec3, TestFmtTen38,
           TestFmtBin1, TestFmtBin2, TestFmtPow127, TestFmtHex1,
           TestFmtHex2, TestFmtHex3, TestFmtOct1, TestFmtOct2,
           TestFmtOct3 }

\* the number of limb samples the converted values are built from
NumConvLimbs == 4

\* 0, 2^63 - 1, 2^63, 2^64 - 1, 1
ConvLimbSamples ==
    << u64_ZERO,
       I64_MAX,
       U64(\h8000, 0, 0, 0),
       u64_MAX,
       u64_ONE >>

ConvLimbs == {ConvLimbSamples[i] : i \in 1..NumConvLimbs}

ConvValues == {from_parts(h, l) : h \in ConvLimbs, l \in ConvLimbs}

\* the 32-bit arguments: 0, 255, 256, 65535, 2^32 - 1
ConvSmall == { u32_ZERO, U32(255), U32(256), U32(65535), u32_MAX }

\* the number of 64-bit samples given to u64_long_mul
NumLongMulLimbs == 10

\* 0, 1, 2^64 - 1, 2^32 - 1, 2^32, the two factors of test_u64_long_mul,
\* 2^63, 2^64 - 2^32, 2, 5, 2^32 + 1, 2^63 + 2^31
LongMulSamples ==
    << U64(\h0000, \h0000, \h0000, \h0000),
       U64(\h0000, \h0000, \h0000, \h0001),
       U64(\hFFFF, \hFFFF, \hFFFF, \hFFFF),
       U64(\h0000, \h0000, \hFFFF, \hFFFF),
       U64(\h0000, \h0001, \h0000, \h0000),
       U64(\h56EE, \h2014, \h75CA, \h8D35),
       U64(\h1F68, \h7204, \h26A0, \hD917),
       U64(\h8000, \h0000, \h0000, \h0000),
       U64(\hFFFF, \hFFFF, \h0000, \h0000),
       U64(\h0000, \h0000, \h0000, \h0002),
       U64(\h0000, \h0000, \h0000, \h0005),
       U64(\h0000, \h0001, \h0000, \h0001),
       U64(\h8000, \h0000, \h8000, \h0000) >>

LongMulLimbs == {LongMulSamples[i] : i \in 1..NumLongMulLimbs}

\* the number of exponent samples given to pow with a small base
NumPowExps == 14

PowExpSamples == <<0, 1, 2, 3, 4, 5, 38, 39, 45, 46, 80, 81, 127, 128, 129, 64, 130>>

PowExps == {U32(PowExpSamples[i]) : i \in 1..NumPowExps}

PowBases == {new(U64(0, 0, 0, v)) : v \in {0, 1, 2, 3, 7, 10}}

\* 2^32, 2^64 - 1, 2^64, 2^127, 2^128 - 1, 10^19, 2^32 + 1, 2^43 - 1
PowBigBases ==
    { from_parts(U64(\h0000, \h0000, \h0000, \h0000), U64(\h0000, \h0001, \h0000, \h0000)),
      from_parts(U64(\h0000, \h0000, \h0000, \h0000), U64(\hFFFF, \hFFFF, \hFFFF, \hFFFF)),
      from_parts(U64(\h0000, \h0000, \h0000, \h0001), U64(\h0000, \h0000, \h0000, \h0000)),
      from_parts(U64(\h8000, \h0000, \h0000, \h0000), U64(\h0000, \h0000, \h0000, \h0000)),
      from_parts(U64(\hFFFF, \hFFFF, \hFFFF, \hFFFF), U64(\hFFFF, \hFFFF, \hFFFF, \hFFFF)),
      from_parts(U64(\h0000, \h0000, \h0000, \h0000), U64(\h8AC7, \h2304, \h89E8, \h0000)),
      from_parts(U64(\h0000, \h0000, \h0000, \h0000), U64(\h0000, \h0001, \h0000, \h0001)),
      from_parts(U64(\h0000, \h0000, \h0000, \h0000), U64(\h0000, \h07FF, \hFFFF, \hFFFF)) }

PowBigExps == {U32(v) : v \in 0..4}

PowInputs == (PowBases \X PowExps) \cup (PowBigBases \X PowBigExps)

-----------------------------------------------------------------------------
(* The state machine: the operands are drawn, then one operation is        *)
(* applied to them and its outcome recorded.                               *)

\* what an operation of two or three u128 operands does not read
NoOtherInput ==
    /\ arg = u32_ZERO
    /\ src = <<>>
    /\ chars = <<>>

Init ==
    /\ \E p \in Operands : a = p[1] /\ b = p[2]
    /\ c = ZERO
    /\ NoOtherInput
    /\ op = "init"
    /\ out = Value(ZERO)

Apply(name, result) ==
    /\ op = "init"
    /\ op' = name
    /\ out' = result
    /\ UNCHANGED <<a, b, c, arg, src, chars>>

WrappingAdd == Apply("wrapping_add", Value(wrapping_add(a, b)))

WrappingSub == Apply("wrapping_sub", Value(wrapping_sub(a, b)))

WrappingNeg == Apply("wrapping_neg", Value(wrapping_neg(a)))

OverflowingAdd ==
    LET r == overflowing_add(a, b) IN Apply("overflowing_add", Pair(r[1], r[2]))

OverflowingSub ==
    LET r == overflowing_sub(a, b) IN Apply("overflowing_sub", Pair(r[1], r[2]))

CheckedAdd == Apply("checked_add", checked_add(a, b))

CheckedSub == Apply("checked_sub", checked_sub(a, b))

SaturatingAdd == Apply("saturating_add", Value(saturating_add(a, b)))

SaturatingSub == Apply("saturating_sub", Value(saturating_sub(a, b)))

TraitSaturatingAdd ==
    Apply("Saturating::saturating_add", Value(Saturating_saturating_add(a, b)))

TraitSaturatingSub ==
    Apply("Saturating::saturating_sub", Value(Saturating_saturating_sub(a, b)))

Add == Apply("add", add(a, b))

Sub == Apply("sub", sub(a, b))

\* a.wrapping_add(b).wrapping_sub(b): the second call, on the first's result
AddThenSub ==
    /\ op = "wrapping_add"
    /\ op' = "wrapping_add.wrapping_sub"
    /\ out' = Value(wrapping_sub(out.val, b))
    /\ UNCHANGED <<a, b, c, arg, src, chars>>

\* a.wrapping_sub(b).wrapping_add(b): the second call, on the first's result
SubThenAdd ==
    /\ op = "wrapping_sub"
    /\ op' = "wrapping_sub.wrapping_add"
    /\ out' = Value(wrapping_add(out.val, b))
    /\ UNCHANGED <<a, b, c, arg, src, chars>>

WrappingMul == Apply("wrapping_mul", Value(wrapping_mul(a, b)))

OverflowingMul ==
    LET r == overflowing_mul(a, b) IN Apply("overflowing_mul", Pair(r[1], r[2]))

CheckedMul == Apply("checked_mul", checked_mul(a, b))

SaturatingMul == Apply("saturating_mul", Value(saturating_mul(a, b)))

Mul == Apply("mul", mul(a, b))

\* u128 * u64: the right operand is the 64-bit value b.lo
Mul64 == Apply("mul_64", mul_64(a, b.lo))

\* (a.wrapping_mul(b)).wrapping_mul(c): the second call, with a third operand
MulThenMul ==
    /\ op = "wrapping_mul"
    /\ \E z \in Thirds :
          /\ c' = z
          /\ out' = Value(wrapping_mul(out.val, z))
    /\ op' = "wrapping_mul.wrapping_mul"
    /\ UNCHANGED <<a, b, arg, src, chars>>

Next ==
    \/ WrappingAdd
    \/ WrappingSub
    \/ WrappingNeg
    \/ OverflowingAdd
    \/ OverflowingSub
    \/ CheckedAdd
    \/ CheckedSub
    \/ SaturatingAdd
    \/ SaturatingSub
    \/ TraitSaturatingAdd
    \/ TraitSaturatingSub
    \/ Add
    \/ Sub
    \/ AddThenSub
    \/ SubThenAdd
    \/ WrappingMul
    \/ OverflowingMul
    \/ CheckedMul
    \/ SaturatingMul
    \/ Mul
    \/ Mul64
    \/ MulThenMul

Spec == Init /\ [][Next]_vars

-----------------------------------------------------------------------------
(* The multiplications by a u64: the right operand is the 64-bit value     *)
(* b.lo.                                                                   *)

WrappingMul64 == Apply("wrapping_mul_64", Value(wrapping_mul_64(a, b.lo)))

OverflowingMul64 ==
    LET r == overflowing_mul_64(a, b.lo)
    IN  Apply("overflowing_mul_64", Pair(r[1], r[2]))

CheckedMul64 == Apply("checked_mul_64", checked_mul_64(a, b.lo))

SaturatingMul64 == Apply("saturating_mul_64", Value(saturating_mul_64(a, b.lo)))

NextMul64 ==
    \/ WrappingMul64
    \/ OverflowingMul64
    \/ CheckedMul64
    \/ SaturatingMul64

SpecMul64 == Init /\ [][NextMul64]_vars

-----------------------------------------------------------------------------
(* The divisions                                                           *)

InitDiv ==
    /\ \E p \in DivOperands : a = p[1] /\ b = p[2]
    /\ c = ZERO
    /\ NoOtherInput
    /\ op = "init"
    /\ out = Value(ZERO)

DivRem == Apply("div_rem", div_rem(a, b))

Div == Apply("div", div(a, b))

Rem == Apply("rem", rem(a, b))

WrappingDiv == Apply("wrapping_div", wrapping_div(a, b))

WrappingRem == Apply("wrapping_rem", wrapping_rem(a, b))

CheckedDiv == Apply("checked_div", checked_div(a, b))

CheckedRem == Apply("checked_rem", checked_rem(a, b))

OverflowingDiv == Apply("overflowing_div", overflowing_div(a, b))

OverflowingRem == Apply("overflowing_rem", overflowing_rem(a, b))

NextDiv ==
    \/ DivRem
    \/ Div
    \/ Rem
    \/ WrappingDiv
    \/ WrappingRem
    \/ CheckedDiv
    \/ CheckedRem
    \/ OverflowingDiv
    \/ OverflowingRem

SpecDiv == InitDiv /\ [][NextDiv]_vars

-----------------------------------------------------------------------------
(* The shifts and the rotations: a is shifted or rotated by the amount     *)
(* arg.                                                                    *)

InitShift ==
    /\ a \in ShiftValues
    /\ arg \in Shifts
    /\ b = ZERO
    /\ c = ZERO
    /\ src = <<>>
    /\ chars = <<>>
    /\ op = "init"
    /\ out = Value(ZERO)

WrappingShl == Apply("wrapping_shl", Value(wrapping_shl(a, arg)))

WrappingShr == Apply("wrapping_shr", Value(wrapping_shr(a, arg)))

OverflowingShl ==
    LET r == overflowing_shl(a, arg) IN Apply("overflowing_shl", Pair(r[1], r[2]))

OverflowingShr ==
    LET r == overflowing_shr(a, arg) IN Apply("overflowing_shr", Pair(r[1], r[2]))

Shl == Apply("shl", shl(a, arg))

Shr == Apply("shr", shr(a, arg))

RotateLeft == Apply("rotate_left", Value(rotate_left(a, arg)))

RotateRight == Apply("rotate_right", Value(rotate_right(a, arg)))

\* a.rotate_left(arg).rotate_right(arg): the second call, on the first's
\* result
RotateLeftThenRight ==
    /\ op = "rotate_left"
    /\ op' = "rotate_left.rotate_right"
    /\ out' = Value(rotate_right(out.val, arg))
    /\ UNCHANGED <<a, b, c, arg, src, chars>>

NextShift ==
    \/ WrappingShl
    \/ WrappingShr
    \/ OverflowingShl
    \/ OverflowingShr
    \/ Shl
    \/ Shr
    \/ RotateLeft
    \/ RotateRight
    \/ RotateLeftThenRight

SpecShift == InitShift /\ [][NextShift]_vars

-----------------------------------------------------------------------------
(* The counts of leading and trailing zero bits of a.                      *)

InitScan ==
    /\ a \in ScanValues
    /\ b = ZERO
    /\ c = ZERO
    /\ NoOtherInput
    /\ op = "init"
    /\ out = Value(ZERO)

LeadingZeros == Apply("leading_zeros", Value(leading_zeros(a)))

TrailingZeros == Apply("trailing_zeros", Value(trailing_zeros(a)))

NextScan ==
    \/ LeadingZeros
    \/ TrailingZeros

SpecScan == InitScan /\ [][NextScan]_vars

-----------------------------------------------------------------------------
(* Construction from limbs, equality and order: the limbs given to         *)
(* from_parts are a.hi and b.lo, the one given to new is b.lo, and the     *)
(* values compared are a and b.                                            *)

FromParts == Apply("from_parts", Value(from_parts(a.hi, b.lo)))

New == Apply("new", Value(new(b.lo)))

Eq == Apply("eq", Value(eq(a, b)))

Cmp == Apply("cmp", Value(cmp(a, b)))

Lt == Apply("lt", Value(lt(a, b)))

Le == Apply("le", Value(le(a, b)))

Gt == Apply("gt", Value(gt(a, b)))

Ge == Apply("ge", Value(ge(a, b)))

NextCmp ==
    \/ FromParts
    \/ New
    \/ Eq
    \/ Cmp
    \/ Lt
    \/ Le
    \/ Gt
    \/ Ge

SpecCmp == Init /\ [][NextCmp]_vars

-----------------------------------------------------------------------------
(* from_str_radix(src, arg), one character of src at a time: while the     *)
(* loop runs, op is "parsing", chars holds the characters yet to read and   *)
(* out the value of result.                                                *)

InitParse ==
    /\ \E p \in ParseInputs : src = p[1] /\ arg = p[2]
    /\ chars = <<>>
    /\ a = ZERO
    /\ b = ZERO
    /\ c = ZERO
    /\ op = "init"
    /\ out = Value(ZERO)

\* the assertion on the radix, the test for the empty text, and the
\* initialisation of result and of the iterator
FromStrRadixBegin(s, radix) ==
    IF ~(u32_ge(radix, U32(2)) /\ u32_ge(U32(36), radix))
    THEN op' = "panicked" /\ out' = RadixPanic(radix) /\ chars' = chars
    ELSE IF Len(s) = 0
    THEN op' = "returned" /\ out' = Err(error_EMPTY) /\ chars' = chars
    ELSE op' = "parsing" /\ out' = Value(ZERO) /\ chars' = s

FromStrRadixEnter ==
    /\ op = "init"
    /\ FromStrRadixBegin(src, arg)
    /\ UNCHANGED <<a, b, c, arg, src>>

\* one turn of the loop
FromStrRadixChar ==
    /\ op = "parsing"
    /\ chars # <<>>
    /\ LET r == from_str_radix_step(out.val, Head(chars), arg)
       IN  IF r.tag = "Err"
           THEN op' = "returned" /\ out' = r /\ chars' = chars
           ELSE op' = "parsing" /\ out' = r /\ chars' = Tail(chars)
    /\ UNCHANGED <<a, b, c, arg, src>>

\* Ok(result), once the iterator is exhausted
FromStrRadixReturn ==
    /\ op = "parsing"
    /\ chars = <<>>
    /\ op' = "returned"
    /\ out' = Ok(out.val)
    /\ UNCHANGED <<a, b, c, arg, src, chars>>

\* from_str(src): the radix is 10 whatever arg is
FromStr ==
    /\ op = "init"
    /\ op' = "from_str"
    /\ out' = from_str(src)
    /\ UNCHANGED <<a, b, c, arg, src, chars>>

NextParse ==
    \/ FromStr
    \/ FromStrRadixEnter
    \/ FromStrRadixChar
    \/ FromStrRadixReturn

SpecParse == InitParse /\ [][NextParse]_vars

-----------------------------------------------------------------------------
(* The formats of a, with a formatter without flags: src receives the      *)
(* digits written.  The text of a format can then be given to             *)
(* from_str_radix with the radix of the format, in arg, and is read one    *)
(* character at a time as above.                                           *)

InitFmt ==
    /\ a \in FmtValues
    /\ b = ZERO
    /\ c = ZERO
    /\ NoOtherInput
    /\ op = "init"
    /\ out = Value(ZERO)

Format(name, text) ==
    /\ op = "init"
    /\ op' = name
    /\ src' = text
    /\ UNCHANGED <<a, b, c, arg, chars, out>>

Display == Format("fmt_display", fmt_display(a))

Binary == Format("fmt_binary", fmt_binary(a))

Octal == Format("fmt_octal", fmt_octal(a))

LowerHex == Format("fmt_lower_hex", fmt_lower_hex(a))

UpperHex == Format("fmt_upper_hex", fmt_upper_hex(a))

FmtOps == {"fmt_display", "fmt_binary", "fmt_octal", "fmt_lower_hex", "fmt_upper_hex"}

\* the radix of a format
RadixOf(name) ==
    CASE name = "fmt_display" -> U32(10)
      [] name = "fmt_binary" -> U32(2)
      [] name = "fmt_octal" -> U32(8)
      [] name = "fmt_lower_hex" -> U32(16)
      [] name = "fmt_upper_hex" -> U32(16)

\* from_str_radix called with the text written and the radix of its format
ParseFormatted ==
    /\ op \in FmtOps
    /\ arg' = RadixOf(op)
    /\ FromStrRadixBegin(src, RadixOf(op))
    /\ UNCHANGED <<a, b, c, src>>

NextFmt ==
    \/ Display
    \/ Binary
    \/ Octal
    \/ LowerHex
    \/ UpperHex
    \/ ParseFormatted
    \/ FromStrRadixChar
    \/ FromStrRadixReturn

SpecFmt == InitFmt /\ [][NextFmt]_vars

-----------------------------------------------------------------------------
(* The casts: a is the value converted; the 64-bit argument of from_u64,   *)
(* from_i64 and From<u64> is b.lo, the argument of From<u32> is arg, that   *)
(* of From<u16> and From<u8> its low two bytes and its low byte.            *)

InitConv ==
    /\ a \in ConvValues
    /\ \E l \in ConvLimbs : b = new(l)
    /\ c = ZERO
    /\ arg \in ConvSmall
    /\ src = <<>>
    /\ chars = <<>>
    /\ op = "init"
    /\ out = Value(ZERO)

Convert(name, result) ==
    /\ op = "init"
    /\ op' = name
    /\ out' = result
    /\ UNCHANGED <<a, b, c, arg, src, chars>>

ToI64 == Convert("to_i64", to_i64(a))

ToU64 == Convert("to_u64", to_u64(a))

ToU128 == Convert("to_u128", to_u128(a))

ToI128 == Convert("to_i128", to_i128(a))

FromU64 == Convert("from_u64", from_u64(b.lo))

FromI64 == Convert("from_i64", from_i64(b.lo))

FromU8 == Convert("From<u8>", Value(from_u8(SubSeq(arg, 1, 1))))

FromU16 == Convert("From<u16>", Value(from_u16(SubSeq(arg, 1, 2))))

FromU32 == Convert("From<u32>", Value(from_u32(arg)))

From == Convert("From<u64>", Value(from(b.lo)))

NextConv ==
    \/ ToI64
    \/ ToU64
    \/ ToU128
    \/ ToI128
    \/ FromU64
    \/ FromI64
    \/ FromU8
    \/ FromU16
    \/ FromU32
    \/ From

SpecConv == InitConv /\ [][NextConv]_vars

-----------------------------------------------------------------------------
(* u64_long_mul(a.lo, b.lo)                                                *)

InitLongMul ==
    /\ \E l \in LongMulLimbs : a = new(l)
    /\ \E l \in LongMulLimbs : b = new(l)
    /\ c = ZERO
    /\ NoOtherInput
    /\ op = "init"
    /\ out = Value(ZERO)

U64LongMul ==
    /\ op = "init"
    /\ op' = "u64_long_mul"
    /\ out' = Value(u64_long_mul(a.lo, b.lo))
    /\ UNCHANGED <<a, b, c, arg, src, chars>>

NextLongMul == U64LongMul

SpecLongMul == InitLongMul /\ [][NextLongMul]_vars

-----------------------------------------------------------------------------
(* pow(a, arg)                                                             *)

InitPow ==
    /\ \E p \in PowInputs : a = p[1] /\ arg = p[2]
    /\ b = ZERO
    /\ c = ZERO
    /\ src = <<>>
    /\ chars = <<>>
    /\ op = "init"
    /\ out = Value(ZERO)

Pow ==
    /\ op = "init"
    /\ op' = "pow"
    /\ out' = pow(a, arg)
    /\ UNCHANGED <<a, b, c, arg, src, chars>>

NextPow == Pow

SpecPow == InitPow /\ [][NextPow]_vars

-----------------------------------------------------------------------------
(* Reference arithmetic on the numeric values, for the properties.         *)

\* 2^128 as a 17-digit natural
Pow128 == Zeros(16) \o <<1>>

\* x + y of two u128, exactly: 17 digits
ExactSum(x, y) == NatAdd(ToNat(x), ToNat(y))

\* 2^128 + x - y of two u128, exactly: the first 17 digits of NatSub
ExactDiffPlus(x, y) == NatSub(ToNat(x) \o <<1>>, ToNat(y) \o <<0>>)

\* x * y of two u128, exactly: 32 digits
ExactProduct(x, y) == NatMul(ToNat(x), ToNat(y))

\* n mod 2^128 as a u128
Mod128(n) == FromNat(Low(n, 16))

\* n >= 2^128
AtLeastPow128(n) == ~IsZeroNat(High(n, 16))

\* floor(x / y) and x mod y of two u128, y nonzero, by restoring division on
\* the numeric values
ExactQuotient(x, y) == FromNat(NatDivMod(ToNat(x), ToNat(y))[1])

ExactRemainder(x, y) == FromNat(NatDivMod(ToNat(x), ToNat(y))[2])

\* q = floor(x / y) and r = x mod y: q * y + r = x exactly, and r < y
IsQuotRem(x, y, q, r) ==
    /\ NatAdd(NatMul(ToNat(q), ToNat(y)), Pad(ToNat(r), 32)) = Pad(ToNat(x), 33)
    /\ NatLess(ToNat(r), ToNat(y))

\* n mod 128 and n >= 128 for a u32 n: 256 is a multiple of 128, so n mod 128
\* is the least significant digit mod 128
Mod128Of(n32) == n32[1] % 128

AtLeast128(n32) == n32[1] >= 128 \/ n32[2] # 0 \/ n32[3] # 0 \/ n32[4] # 0

\* 2^k as a 17-digit natural, for k <= 128
Pow2Nat(k) == Pad(Pad(<<>>, k \div 8) \o <<2 ^ (k % 8)>>, 17)

\* (x * 2^k) mod 2^128 and floor(x / 2^k) of a u128, for 0 <= k < 128; the
\* second as floor(x * 2^(128 - k) / 2^128)
ExactShl(x, k) == FromNat(NatMulLow(ToNat(x), Pow2Nat(k), 16))

ExactShr(x, k) == FromNat(Low(High(NatMul(ToNat(x), Pow2Nat(128 - k)), 16), 16))

\* y is x rotated left by k bits: bit i of x is bit (i + k) mod 128 of y
IsRotationLeft(x, y, k) ==
    \A i \in 0..127 : NatBit(ToNat(y), (i + k) % 128) = NatBit(ToNat(x), i)

\* the number of one bits of a natural
NatCountOnes(x) == Cardinality({ i \in 0..(8 * Len(x) - 1) : NatBit(x, i) = 1 })

\* the number of zero bits above the most significant one bit of a natural x
\* of n digits, and below its least significant one bit; 8 * n for 0
ZeroBitsAbove(x) ==
    LET w == 8 * Len(x)
    IN  CHOOSE z \in 0..w :
            /\ \A i \in (w - z)..(w - 1) : NatBit(x, i) = 0
            /\ z < w => NatBit(x, w - 1 - z) = 1

ZeroBitsBelow(x) ==
    LET w == 8 * Len(x)
    IN  CHOOSE z \in 0..w :
            /\ \A i \in 0..(z - 1) : NatBit(x, i) = 0
            /\ z < w => NatBit(x, z) = 1

\* the number of digits of the naturals that hold the value of a text: more
\* than the longest text drawn needs
RefDigits == 28

\* text[len] appended to the value v read in base r: v * r + digit
AppendDigit(v, r, ch) == NatMulBlocks(<<r>>, v, 1, CharValue(ch), RefDigits)

\* The value acc of the first i - 1 characters of s with the characters
\* i..len appended.  (A quantifier binds the value and the position of the
\* next turn: TLC evaluates an operator's argument anew at each of its uses.)
RECURSIVE PrefixValueFrom(_, _, _, _, _)
PrefixValueFrom(acc, s, r, i, len) ==
    IF i > len THEN acc
    ELSE CHOOSE v \in { PrefixValueFrom(p[1], s, r, p[2], len) :
                           p \in {<<AppendDigit(acc, r, s[i]), i + 1>>} } : TRUE

\* the same value, ParseBlock characters at a time
RECURSIVE PrefixValueBlocks(_, _, _, _, _)
PrefixValueBlocks(acc, s, r, i, len) ==
    IF len - i < ParseBlock THEN PrefixValueFrom(acc, s, r, i, len)
    ELSE CHOOSE v \in { PrefixValueBlocks(p[1], s, r, p[2], len) :
                           p \in {<<PrefixValueFrom(acc, s, r, i, i + ParseBlock - 1),
                                    i + ParseBlock>>} } : TRUE

\* The numeric value in base r of the first len characters of the text s.
PrefixValue(s, r, len) ==
    CHOOSE v \in { PrefixValueBlocks(Pad(<<>>, RefDigits), s, r, 1, n) :
                       n \in {len} } : TRUE

\* a radix in 2..=36 and a non-empty text of digits of that radix
ValidText(s, radix) ==
    /\ radix[2] = 0 /\ radix[3] = 0 /\ radix[4] = 0
    /\ radix[1] \in 2..36
    /\ Len(s) > 0
    /\ \A i \in 1..Len(s) : CharValue(s[i]) < radix[1]

\* the radix lies in 2..=36
ValidRadix(radix) ==
    /\ radix[2] = 0 /\ radix[3] = 0 /\ radix[4] = 0
    /\ radix[1] \in 2..36

\* the characters of s that are no digits of base r, by position
InvalidAt(s, r) == { i \in 1..Len(s) : CharValue(s[i]) >= r }

\* the number of characters of s before its first invalid one
ValidPrefixLen(s, r) ==
    IF InvalidAt(s, r) = {} THEN Len(s)
    ELSE (CHOOSE i \in InvalidAt(s, r) : \A j \in InvalidAt(s, r) : i <= j) - 1

\* the digits of s before its first invalid character already give a value
\* above 2^128 - 1
OverflowsBeforeInvalid(s, r) ==
    AtLeastPow128(PrefixValue(s, r, ValidPrefixLen(s, r)))

\* a non-empty text with an invalid character and no overflow before it
InvalidDigitCase(s, radix) ==
    /\ ValidRadix(radix)
    /\ InvalidAt(s, radix[1]) # {}
    /\ ~OverflowsBeforeInvalid(s, radix[1])

\* the position of the first digit of s with which the value read reaches
\* 2^128, there being one before the first invalid character
FirstOverflowAt(s, r) ==
    CHOOSE i \in 1..ValidPrefixLen(s, r) :
        /\ AtLeastPow128(PrefixValue(s, r, i))
        /\ ~AtLeastPow128(PrefixValue(s, r, i - 1))

\* the number of characters of src that the loop has passed
CharsPassed == Len(src) - Len(chars)

\* the number of bits of the natural n without its zeros in front
BitLen(n) ==
    LET ones == { i \in 0..(8 * Len(n) - 1) : NatBit(n, i) = 1 }
    IN  IF ones = {} THEN 0
        ELSE 1 + (CHOOSE i \in ones : \A k \in ones : k <= i)

\* the bit i of n, 0 beyond its digits
BitOrZero(n, i) == IF i < 8 * Len(n) THEN NatBit(n, i) ELSE 0

\* the digit j, from the least significant one, of n in base 2^k, k <= 4
DigitAt(n, k, j) ==
    LET B(t) == IF t < k THEN BitOrZero(n, k * j + t) * (2 ^ t) ELSE 0
    IN  B(0) + B(1) + B(2) + B(3)

\* text is the representation of n in base 2^k without zeros in front, in
\* the digits of table
CanonicalPow2(text, n, k, table) ==
    /\ Len(text) = (IF BitLen(n) = 0 THEN 1 ELSE (BitLen(n) + k - 1) \div k)
    /\ \A i \in 1..Len(text) : text[i] = table[DigitAt(n, k, Len(text) - i) + 1]

\* one of "0" to "9"
IsDecimalDigit(ch) == \E d \in 1..10 : DigitChars[d] = ch

\* text is the representation of n in base 10 without zeros in front
CanonicalDecimal(text, n) ==
    /\ Len(text) >= 1
    /\ \A i \in 1..Len(text) : IsDecimalDigit(text[i])
    /\ text[1] = "0" => Len(text) = 1
    /\ PrefixValue(text, 10, Len(text)) = Pad(n, RefDigits)

\* text is n written in exactly width decimal digits
DecimalOfWidth(text, n, width) ==
    /\ Len(text) = width
    /\ \A i \in 1..Len(text) : IsDecimalDigit(text[i])
    /\ PrefixValue(text, 10, Len(text)) = Pad(n, RefDigits)

\* the number of digits of the naturals that hold a power
PowDigits == 66

\* a natural without its zero digits in front, one digit at least
RECURSIVE Trim(_)
Trim(n) == IF Len(n) > 1 /\ n[Len(n)] = 0 THEN Trim(SubSeq(n, 1, Len(n) - 1)) ELSE n

\* acc * x^k by k multiplications, x being trimmed
RECURSIVE TimesPower(_, _, _)
TimesPower(acc, x, k) ==
    IF k = 0 THEN acc
    ELSE CHOOSE v \in { TimesPower(p[1], x, p[2]) :
                           p \in {<<NatMulBlocks(x, acc, 1, 0, PowDigits), k - 1>>} } : TRUE

\* the multiplications done in one stretch
PowerBlock == 16

\* acc * x^k, PowerBlock multiplications at a time
RECURSIVE TimesPowerBlocks(_, _, _)
TimesPowerBlocks(acc, x, k) ==
    IF k <= PowerBlock THEN TimesPower(acc, x, k)
    ELSE CHOOSE v \in { TimesPowerBlocks(p[1], x, p[2]) :
                           p \in {<<TimesPower(acc, x, PowerBlock), k - PowerBlock>>} } : TRUE

\* x^k for the natural x and the integer k
ExactPower(x, k) ==
    CHOOSE v \in { TimesPowerBlocks(Pad(<<1>>, PowDigits), t, k) : t \in {Trim(x)} } : TRUE

\* the value of a u32 below 2^16
SmallValue(n32) == n32[1] + 256 * n32[2]

-----------------------------------------------------------------------------
(* The expectations of the source's own tests, as a check of the model.    *)

SourceTestsAgree ==
    /\ (a = TestAddA /\ b = TestAddB) =>
          /\ op = "wrapping_add" => out.val = TestAddC
          /\ op = "overflowing_add" => out = Pair(TestAddC, TRUE)
          /\ op = "checked_add" => out = None
          /\ op = "saturating_add" => out.val = MAX
    /\ (a = TestSubA /\ b = TestSubB) =>
          /\ op = "wrapping_sub" => out.val = TestSubC
          /\ op = "overflowing_sub" => out = Pair(TestSubC, TRUE)
          /\ op = "checked_sub" => out = None
          /\ op = "saturating_sub" => out.val = ZERO
    /\ (a = TestSubB /\ b = TestSubA) =>
          /\ op = "overflowing_sub" => out = Pair(wrapping_neg(TestSubC), FALSE)
          /\ op = "checked_sub" => out = Some(wrapping_neg(TestSubC))
    /\ (a = TestMulA /\ b = TestMulB) =>
          /\ op = "wrapping_mul" => out.val = TestMulC
          /\ op = "overflowing_mul" => out = Pair(TestMulC, TRUE)
          /\ op = "saturating_mul" => out.val = MAX
    /\ ((a = TestMul2A /\ b = TestMul2B) \/ (a = TestMul2B /\ b = TestMul2A)) =>
          /\ op = "wrapping_mul" => out.val = TestMul2C
          /\ op = "overflowing_mul" => out = Pair(TestMul2C, TRUE)
          /\ op = "checked_mul" => out = None
    /\ (a = TestMul3A /\ b = TestMul3B) =>
          /\ op = "mul" => out = Value(TestMul3C)
          /\ op = "mul_64" => out = Value(TestMul3C)
    /\ u64_long_mul(TestMul3A.lo, TestMul3B.lo) = TestMul3C
    /\ u64_long_mul(u64_MAX, u64_MAX)
          = from_parts(U64(\hFFFF, \hFFFF, \hFFFF, \hFFFE), u64_ONE)

-----------------------------------------------------------------------------
(* Properties                                                              *)

\* C1: wrapping_add(a, b) is (a + b) mod 2^128, wrapping_sub(a, b) is
\* (a - b) mod 2^128 and wrapping_neg(a) is (2^128 - a) mod 2^128, which is
\* !a + 1; each returns a plain value and signals nothing on wrap-around.
C1_WrappingAddSubNeg ==
    /\ op = "wrapping_add" => out = Value(Mod128(ExactSum(a, b)))
    /\ op = "wrapping_sub" => out = Value(Mod128(ExactDiffPlus(a, b)))
    /\ op = "wrapping_neg" =>
          /\ out = Value(Mod128(ExactDiffPlus(ZERO, a)))
          /\ out.val = Mod128(ExactSum(not(a), ONE))

\* MAX.wrapping_add(ONE) == ZERO: the carry out of the low limb went through
\* the high limb and out of the value
C1_Witness ==
    op = "wrapping_add" /\ a = MAX /\ b = ONE /\ out.val = ZERO

\* C2: a.wrapping_add(b).wrapping_sub(b) == a and
\* a.wrapping_sub(b).wrapping_add(b) == a.
C2_InverseRoundTrip ==
    (op = "wrapping_add.wrapping_sub" \/ op = "wrapping_sub.wrapping_add")
        => out.val = a

\* a round trip whose first step wrapped around: ONE - MAX + MAX
C2_Witness ==
    /\ op = "wrapping_sub.wrapping_add"
    /\ a = ONE
    /\ b = MAX
    /\ out.val = ONE

\* C3: overflowing_add returns the wrapping sum and a flag that is true
\* exactly when a + b >= 2^128; overflowing_sub returns the wrapping
\* difference and a flag that is true exactly when a < b.
C3_OverflowingAddSub ==
    /\ op = "overflowing_add" =>
          /\ out.val = wrapping_add(a, b)
          /\ out.val = Mod128(ExactSum(a, b))
          /\ out.flag <=> AtLeastPow128(ExactSum(a, b))
    /\ op = "overflowing_sub" =>
          /\ out.val = wrapping_sub(a, b)
          /\ out.val = Mod128(ExactDiffPlus(a, b))
          /\ out.flag <=> NatLess(ToNat(a), ToNat(b))

\* from_parts(1, 2^64-1) + ONE gives (from_parts(2, 0), false): the carry out
\* of the low limb is absorbed by the high limb
C3_Witness ==
    /\ op = "overflowing_add"
    /\ a = from_parts(u64_ONE, u64_MAX)
    /\ b = ONE
    /\ out = Pair(from_parts(U64(0, 0, 0, 2), u64_ZERO), FALSE)

\* C4: checked_add, checked_sub and checked_mul return Some(r) with r the
\* exact result when it lies in [0, 2^128 - 1] and None otherwise, which is
\* exactly when the matching overflowing_* operation reports overflow.
C4_Checked ==
    /\ op = "checked_add" =>
          LET sum == ExactSum(a, b)
          IN  /\ out = IF AtLeastPow128(sum) THEN None ELSE Some(Mod128(sum))
              /\ out.tag = "None" <=> overflowing_add(a, b)[2]
    /\ op = "checked_sub" =>
          /\ out = IF NatLess(ToNat(a), ToNat(b)) THEN None
                   ELSE Some(Mod128(ExactDiffPlus(a, b)))
          /\ out.tag = "None" <=> overflowing_sub(a, b)[2]
    /\ op = "checked_mul" =>
          LET prod == ExactProduct(a, b)
          IN  /\ out = IF AtLeastPow128(prod) THEN None ELSE Some(Mod128(prod))
              /\ out.tag = "None" <=> overflowing_mul(a, b)[2]

\* prim_int_tests::test_checked_mul: u64::MAX * u64::MAX fits, with the
\* whole product in both limbs
C4_Witness ==
    /\ op = "checked_mul"
    /\ a = new(u64_MAX)
    /\ b = new(u64_MAX)
    /\ out = Some(from_parts(U64(\hFFFF, \hFFFF, \hFFFF, \hFFFE), u64_ONE))

\* C5: the inherent saturating operations return the exact result when it is
\* representable and clamp otherwise: saturating_add is min(a + b, MAX),
\* saturating_mul is min(a * b, MAX), saturating_sub is ZERO when a < b and
\* a - b otherwise.
C5_Saturating ==
    /\ op = "saturating_add" =>
          LET sum == ExactSum(a, b)
          IN  out = Value(IF AtLeastPow128(sum) THEN MAX ELSE Mod128(sum))
    /\ op = "saturating_mul" =>
          LET prod == ExactProduct(a, b)
          IN  out = Value(IF AtLeastPow128(prod) THEN MAX ELSE Mod128(prod))
    /\ op = "saturating_sub" =>
          out = Value(IF NatLess(ToNat(a), ToNat(b)) THEN ZERO
                      ELSE Mod128(ExactDiffPlus(a, b)))

\* add_sub_tests::test_wrapping_overflowing_sub: b.saturating_sub(a) is the
\* exact difference, the negation of the wrapped a - b
C5_Witness ==
    /\ op = "saturating_sub"
    /\ a = TestSubB
    /\ b = TestSubA
    /\ out.val = wrapping_neg(TestSubC)
    /\ out.val # ZERO

\* C6: the Saturating trait's saturating_sub(a, b) returns the same value as
\* the inherent saturating_sub(a, b): ZERO when a < b and a - b otherwise.
C6_TraitSaturatingSub ==
    op = "Saturating::saturating_sub" =>
        /\ out.val = saturating_sub(a, b)
        /\ out.val = IF NatLess(ToNat(a), ToNat(b)) THEN ZERO
                     ELSE Mod128(ExactDiffPlus(a, b))

\* C7: the operators +, -, * (u128 * u128 and u128 * u64) return the exact
\* result when it lies in [0, 2^128 - 1] and otherwise panic with
\* "arithmetic operation overflowed".
C7_Operators ==
    LET Overflowed == Panic("arithmetic operation overflowed")
    IN  /\ op = "add" =>
              out = IF AtLeastPow128(ExactSum(a, b)) THEN Overflowed
                    ELSE Value(Mod128(ExactSum(a, b)))
        /\ op = "sub" =>
              out = IF NatLess(ToNat(a), ToNat(b)) THEN Overflowed
                    ELSE Value(Mod128(ExactDiffPlus(a, b)))
        /\ op = "mul" =>
              LET prod == ExactProduct(a, b)
              IN  out = IF AtLeastPow128(prod) THEN Overflowed
                        ELSE Value(Mod128(prod))
        /\ op = "mul_64" =>
              LET prod == ExactProduct(a, new(b.lo))
              IN  out = IF AtLeastPow128(prod) THEN Overflowed
                        ELSE Value(Mod128(prod))

\* add_sub_tests::test_add_overflow_without_carry: 2^127 + 2^127 panics
\* although the low limbs produce no carry
C7_Witness ==
    /\ op = "add"
    /\ a = from_parts(U64(\h8000, 0, 0, 0), u64_ZERO)
    /\ b = a
    /\ out = Panic("arithmetic operation overflowed")

\* C8: wrapping_mul(a, b) is (a * b) mod 2^128: the product a.lo * b.lo with
\* the low 64 bits of a.hi * b.lo and of a.lo * b.hi added into its high limb
\* modulo 2^64.
C8_WrappingMul ==
    op = "wrapping_mul" =>
        LET low == FromNat(NatMul(a.lo, b.lo))
            ad == Low(NatMul(a.hi, b.lo), 8)
            bc == Low(NatMul(a.lo, b.hi), 8)
            hi == Low(NatAdd(Low(NatAdd(low.hi, ad), 8), bc), 8)
        IN  /\ out = Value(Mod128(ExactProduct(a, b)))
            /\ out.val = from_parts(hi, low.lo)

\* mul_tests::test_wrapping_overflowing_mul: both operands have all four
\* limbs nonzero and the product wraps
C8_Witness ==
    /\ op = "wrapping_mul"
    /\ a = TestMulA
    /\ b = TestMulB
    /\ out.val = TestMulC

\* C9: a.wrapping_mul(b) == b.wrapping_mul(a) and
\* (a.wrapping_mul(b)).wrapping_mul(c) == a.wrapping_mul(b.wrapping_mul(c)).
C9_MulCommutativeAssociative ==
    /\ op = "wrapping_mul" => out.val = wrapping_mul(b, a)
    /\ op = "wrapping_mul.wrapping_mul" =>
          out.val = wrapping_mul(a, wrapping_mul(b, c))

\* three operands with nonzero high limbs: (a * b) * (2^128 - 1) is the
\* negation of the test's product
C9_Witness ==
    /\ op = "wrapping_mul.wrapping_mul"
    /\ a = TestMulA
    /\ b = TestMulB
    /\ c = MAX
    /\ out.val = wrapping_neg(TestMulC)

\* C10: overflowing_mul(a, b) returns the wrapping product and a flag that is
\* true exactly when a * b >= 2^128: forced true when both high limbs are
\* nonzero, otherwise the overflow of the one 64x64 cross product or of adding
\* it into the high limb of a.lo * b.lo; value and flag are the same for
\* (b, a).
C10_OverflowingMul ==
    op = "overflowing_mul" =>
        LET prod == ExactProduct(a, b)
            low == NatMul(a.lo, b.lo)
            cross == IF b.hi = u64_ZERO THEN NatMul(a.hi, b.lo)
                     ELSE NatMul(b.hi, a.lo)
            swapped == overflowing_mul(b, a)
        IN  /\ out.val = wrapping_mul(a, b)
            /\ out.val = Mod128(prod)
            /\ out.flag <=> AtLeastPow128(prod)
            /\ (a.hi # u64_ZERO /\ b.hi # u64_ZERO) => out.flag
            /\ (a.hi = u64_ZERO \/ b.hi = u64_ZERO) =>
                  (out.flag <=>
                      \/ ~IsZeroNat(High(cross, 8))
                      \/ NatAdd(High(low, 8), Low(cross, 8))[9] # 0)
            /\ out = Pair(swapped[1], swapped[2])

\* mul_tests::test_wrapping_overflowing_mul: one high limb is zero and the
\* product overflows
C10_Witness ==
    /\ op = "overflowing_mul"
    /\ a = TestMul2A
    /\ b = TestMul2B
    /\ out = Pair(TestMul2C, TRUE)


\* C11: the multiplications by a 64-bit k give what the 128-bit
\* multiplications give on the right operand u128::new(k): the same wrapped
\* value, the same overflow flag, the same Option and the same saturated
\* value.
C11_Mul64Refines ==
    LET k == new(b.lo)
    IN  /\ op = "wrapping_mul_64" => out = Value(wrapping_mul(a, k))
        /\ op = "overflowing_mul_64" =>
               LET r == overflowing_mul(a, k) IN out = Pair(r[1], r[2])
        /\ op = "checked_mul_64" => out = checked_mul(a, k)
        /\ op = "saturating_mul_64" => out = Value(saturating_mul(a, k))

\* the second product of test_mul_64, which needs both limbs of the left
\* operand
C11_Witness ==
    /\ op = "overflowing_mul_64"
    /\ a = TestMul64A
    /\ b = TestMul64B
    /\ out = Pair(TestMul64C, FALSE)


\* C12: for a nonzero divisor b, div_rem(a, b) is (floor(a / b), a mod b):
\* q * b + r = a exactly, r < b, and q.wrapping_mul(b).wrapping_add(r) == a;
\* a / b, wrapping_div and checked_div give the same q, and a % b,
\* wrapping_rem and checked_rem the same r.
C12_DivRem ==
    b # ZERO =>
        LET q == ExactQuotient(a, b)
            r == ExactRemainder(a, b)
        IN  /\ IsQuotRem(a, b, q, r)
            /\ op = "div_rem" =>
                  /\ out.tag = "pair"
                  /\ IsQuotRem(a, b, out.val, out.flag)
                  /\ wrapping_add(wrapping_mul(out.val, b), out.flag) = a
                  /\ out = Pair(q, r)
            /\ op \in {"div", "wrapping_div"} => out = Value(q)
            /\ op = "checked_div" => out = Some(q)
            /\ op \in {"rem", "wrapping_rem"} => out = Value(r)
            /\ op = "checked_rem" => out = Some(r)

\* test_div_rem, with a divisor of two limbs
C12_Witness ==
    /\ op = "div_rem"
    /\ a = TestDiv3A
    /\ b = TestDiv3B
    /\ out = Pair(TestDiv3Q, TestDiv3R)

\* C13: checked_div and checked_rem return None exactly when the divisor is
\* ZERO; with a ZERO divisor a / b, wrapping_div and div_rem panic with
\* "attempted to divide by zero", and a % b and wrapping_rem with "attempted
\* remainder with a divisor of zero".
C13_DivisionByZero ==
    /\ op \in {"checked_div", "checked_rem"} =>
          /\ out.tag \in {"Some", "None"}
          /\ (out = None) <=> (b = ZERO)
    /\ (b = ZERO /\ op \in {"div", "wrapping_div", "div_rem"}) =>
          out = Panic("attempted to divide by zero")
    /\ (b = ZERO /\ op \in {"rem", "wrapping_rem"}) =>
          out = Panic("attempted remainder with a divisor of zero")

\* test_rem_by_zero
C13_Witness ==
    /\ op = "rem"
    /\ a = ONE
    /\ b = ZERO
    /\ out.tag = "panic"

\* C14, as stated: overflowing_div and overflowing_rem return a pair whose
\* flag is false for every a and every b.
C14_AlwaysFalseFlag ==
    op \in {"overflowing_div", "overflowing_rem"} =>
        (out.tag = "pair" /\ out.flag = FALSE)

\* C14, amended: for every a and every nonzero b, overflowing_div and
\* overflowing_rem return the quotient and the remainder with the flag false;
\* with b == ZERO they return nothing: they panic as wrapping_div and
\* wrapping_rem do.
C14_OverflowingDivRem ==
    /\ op = "overflowing_div" =>
          IF b = ZERO THEN out = Panic("attempted to divide by zero")
          ELSE out = Pair(ExactQuotient(a, b), FALSE)
    /\ op = "overflowing_rem" =>
          IF b = ZERO
          THEN out = Panic("attempted remainder with a divisor of zero")
          ELSE out = Pair(ExactRemainder(a, b), FALSE)

\* the first remainder of test_rem, through overflowing_rem
C14_Witness ==
    /\ op = "overflowing_rem"
    /\ a = TestDivA
    /\ b = TestDivB
    /\ out = Pair(TestDivR, FALSE)


\* C15: wrapping_shl(x, n) is (x * 2^(n mod 128)) mod 2^128 and
\* wrapping_shr(x, n) is floor(x / 2^(n mod 128)); the result is that of the
\* shift by n % 128; a shift by 0 or a multiple of 128 is the identity, and a
\* shift by 64 moves one limb into the other and zeroes the vacated one.
C15_WrappingShifts ==
    LET k == Mod128Of(arg)
    IN  /\ op = "wrapping_shl" =>
              /\ out.val = ExactShl(a, k)
              /\ out.val = wrapping_shl(a, U32(k))
              /\ k = 0 => out.val = a
              /\ k = 64 => out.val = from_parts(a.lo, u64_ZERO)
        /\ op = "wrapping_shr" =>
              /\ out.val = ExactShr(a, k)
              /\ out.val = wrapping_shr(a, U32(k))
              /\ k = 0 => out.val = a
              /\ k = 64 => out.val = from_parts(u64_ZERO, a.hi)

\* test_shl: a shift by 1, where the top bit of the low limb crosses into
\* the high limb
C15_Witness ==
    /\ op = "wrapping_shl"
    /\ a = TestShiftY
    /\ arg = U32(1)
    /\ out.val = from_parts(U64(\hF004, \hA6C7, \hBB9A, \hA3B0),
                            U64(\hA13A, \hF1C9, \h4601, \h179A))

\* C16: overflowing_shl and overflowing_shr return the wrapping result with
\* the flag n >= 128; << and >> return the wrapping result when n < 128 and
\* panic with "shift operation overflowed" exactly when n >= 128.
C16_OverflowingShifts ==
    /\ op = "overflowing_shl" => out = Pair(wrapping_shl(a, arg), AtLeast128(arg))
    /\ op = "overflowing_shr" => out = Pair(wrapping_shr(a, arg), AtLeast128(arg))
    /\ op = "shl" =>
          out = IF AtLeast128(arg) THEN Panic("shift operation overflowed")
                ELSE Value(ExactShl(a, Mod128Of(arg)))
    /\ op = "shr" =>
          out = IF AtLeast128(arg) THEN Panic("shift operation overflowed")
                ELSE Value(ExactShr(a, Mod128Of(arg)))

\* test_shl_overflow
C16_Witness ==
    /\ op = "shl"
    /\ a = TestShiftX
    /\ arg = U32(128)
    /\ out = Panic("shift operation overflowed")


\* C17: rotate_left(x, n) is the left rotation by n mod 128: bit i of x is
\* bit (i + n) mod 128 of the result and count_ones is preserved; the limbs
\* are swapped exactly when n mod 128 >= 64, so un-swapping the result then
\* gives the rotation by n mod 64; a rotation by 0 or a multiple of 128 is the
\* identity; rotate_right undoes rotate_left by the same amount.
C17_Rotations ==
    LET k == Mod128Of(arg)
    IN  /\ op = "rotate_left" =>
              /\ IsRotationLeft(a, out.val, k)
              /\ count_ones(out.val) = count_ones(a)
              /\ count_ones(a) = NatCountOnes(ToNat(a))
              /\ IsRotationLeft(a,
                     IF k >= 64 THEN from_parts(out.val.lo, out.val.hi)
                     ELSE out.val,
                     k % 64)
              /\ k = 0 => out.val = a
        /\ op = "rotate_right" => IsRotationLeft(out.val, a, k)
        /\ op = "rotate_left.rotate_right" => out.val = a

\* a rotation by 120 and back: the limbs are swapped each way
C17_Witness ==
    /\ op = "rotate_left.rotate_right"
    /\ a = TestShiftX
    /\ arg = U32(120)
    /\ out.val = TestShiftX


\* C18: leading_zeros is the number of zero bits above the top one bit of the
\* 128-bit value: 64 + lz64(lo) when hi == 0 and lz64(hi) otherwise;
\* trailing_zeros is the number of zero bits below the lowest one bit: 64 +
\* tz64(hi) when lo == 0 and tz64(lo) otherwise; both are 128 for ZERO;
\* from_parts(2^63, 0).leading_zeros() == 0 and
\* from_parts(1, 4).trailing_zeros() == 2.
C18_LeadingTrailingZeros ==
    /\ op = "leading_zeros" =>
          /\ out.val = ZeroBitsAbove(ToNat(a))
          /\ out.val = IF a.hi = u64_ZERO THEN 64 + ZeroBitsAbove(a.lo)
                       ELSE ZeroBitsAbove(a.hi)
          /\ a = ZERO => out.val = 128
          /\ a = from_parts(U64(\h8000, 0, 0, 0), u64_ZERO) => out.val = 0
    /\ op = "trailing_zeros" =>
          /\ out.val = ZeroBitsBelow(ToNat(a))
          /\ out.val = IF a.lo = u64_ZERO THEN 64 + ZeroBitsBelow(a.hi)
                       ELSE ZeroBitsBelow(a.lo)
          /\ a = ZERO => out.val = 128
          /\ a = from_parts(u64_ONE, U64(0, 0, 0, 4)) => out.val = 2

\* test_trailing_zeros: from_parts(1, 4).trailing_zeros() == 2
C18_Witness ==
    /\ op = "trailing_zeros"
    /\ a = from_parts(u64_ONE, U64(0, 0, 0, 4))
    /\ out.val = 2


\* C19: from_parts(h, l) has the high limb h and the low limb l, and new(l)
\* is from_parts(0, l); two values are equal iff their numeric values are;
\* cmp compares the high limbs and, where they are equal, the low limbs; the
\* order of cmp, <, <=, > and >= is the order of the numeric values, so it is
\* total.
C19_StructureAndOrder ==
    LET less == NatLess(ToNat(a), ToNat(b))
        greater == NatLess(ToNat(b), ToNat(a))
    IN  /\ op = "from_parts" =>
              /\ high64(out.val) = a.hi
              /\ low64(out.val) = b.lo
              /\ ToNat(out.val) = b.lo \o a.hi
        /\ op = "new" =>
              /\ out.val = from_parts(u64_ZERO, b.lo)
              /\ ToNat(out.val) = b.lo \o u64_ZERO
        /\ op = "eq" => out.val = (ToNat(a) = ToNat(b))
        /\ op = "cmp" =>
              /\ out.val = IF less THEN "Less"
                           ELSE IF greater THEN "Greater" ELSE "Equal"
              /\ a.hi # b.hi =>
                    out.val = IF NatLess(a.hi, b.hi) THEN "Less" ELSE "Greater"
              /\ (out.val = "Equal") <=> (a = b)
        /\ op = "lt" => out.val = less
        /\ op = "le" => out.val = ~greater
        /\ op = "gt" => out.val = greater
        /\ op = "ge" => out.val = ~less

\* test_ord: from_parts(1, 0) > ONE, though its low limb is the smaller
C19_Witness ==
    /\ op = "gt"
    /\ a = from_parts(u64_ONE, u64_ZERO)
    /\ b = ONE
    /\ out.val = TRUE


\* C20: for a radix in 2..=36 and a non-empty text of digits of that radix,
\* result is, after each character, the value of the prefix read so far,
\* which is below 2^128; from_str_radix returns Ok of the value of the text
\* when that is below 2^128 and Err(Overflow) exactly when it is not, never a
\* wrapped value; it does not panic.
C20_FromStrRadix ==
    ValidText(src, arg) =>
        /\ op = "parsing" =>
              LET p == PrefixValue(src, arg[1], Len(src) - Len(chars))
              IN  /\ ~AtLeastPow128(p)
                  /\ out = Value(Mod128(p))
        /\ op = "returned" =>
              LET t == PrefixValue(src, arg[1], Len(src))
              IN  out = IF AtLeastPow128(t) THEN Err(error_OVERFLOW)
                        ELSE Ok(Mod128(t))
        /\ op # "panicked"

\* test_from_str_radix: "f5lxx1zz5pnorynqglhzmsp33" in base 36 is Ok(MAX)
C20_Witness ==
    /\ op = "returned"
    /\ src = TestStrMax36
    /\ arg = U32(36)
    /\ out = Ok(MAX)


\* C21: a radix outside 2..=36 makes from_str_radix panic before any
\* character is read; with a valid radix the empty text gives Err(Empty) and
\* a text with a character that is no digit of the radix, and no overflow
\* before it, gives Err(InvalidDigit); from_str gives what these rules give
\* for the radix 10.
C21_FailureKinds ==
    /\ (~ValidRadix(arg) /\ op # "init" /\ op # "from_str") =>
          op = "panicked" /\ out = RadixPanic(arg) /\ chars = <<>>
    /\ op = "panicked" => ~ValidRadix(arg)
    /\ (op = "returned" /\ src = <<>>) => out = Err(error_EMPTY)
    /\ (op = "returned" /\ InvalidDigitCase(src, arg)) =>
          out = Err(error_INVALID_DIGIT)
    /\ (op = "from_str" /\ src = <<>>) => out = Err(error_EMPTY)
    /\ (op = "from_str" /\ InvalidDigitCase(src, U32(10))) =>
          out = Err(error_INVALID_DIGIT)
    /\ (op = "from_str" /\ ValidText(src, U32(10))) =>
          LET t == PrefixValue(src, 10, Len(src))
          IN  out = IF AtLeastPow128(t) THEN Err(error_OVERFLOW)
                    ELSE Ok(Mod128(t))

\* test_from_str_radix: "123" in base 3 is an invalid digit
C21_Witness ==
    /\ op = "returned"
    /\ src = TestStr123
    /\ arg = U32(3)
    /\ out = Err(error_INVALID_DIGIT)


\* C29: from_str_radix reads src from left to right, chars being what is
\* left of it, and stops at the first character whose step fails, which
\* stays unread at the head of chars: the first digit with which the value
\* reaches 2^128 when there is one before the first invalid character
\* (Err(Overflow), the invalid character not reached), else the first invalid
\* character (Err(InvalidDigit), even where its multiplication would
\* overflow); a sign is such a character; Ok is returned only with every
\* character read.
C29_FirstFailureWins ==
    (ValidRadix(arg) /\ op \in {"parsing", "returned"}) =>
        /\ chars = SubSeq(src, CharsPassed + 1, Len(src))
        /\ (op = "returned" /\ src # <<>>) =>
              LET r == arg[1]
                  len == ValidPrefixLen(src, r)
              IN  /\ OverflowsBeforeInvalid(src, r) =>
                        /\ out = Err(error_OVERFLOW)
                        /\ CharsPassed + 1 = FirstOverflowAt(src, r)
                  /\ (~OverflowsBeforeInvalid(src, r) /\ len < Len(src)) =>
                        /\ out = Err(error_INVALID_DIGIT)
                        /\ CharsPassed = len
                  /\ src[1] \in {"+", "-"} =>
                        out = Err(error_INVALID_DIGIT) /\ chars = src
                  /\ out.tag = "Ok" => chars = <<>> /\ len = Len(src)
                  /\ out.tag \in {"Ok", "Err"}

\* MAX in base 10 followed by "a": the invalid digit is reported although
\* MAX * 10 overflows
C29_Witness ==
    /\ op = "returned"
    /\ src = StrMax10 \o <<"a">>
    /\ arg = U32(10)
    /\ out = Err(error_INVALID_DIGIT)
    /\ chars = <<"a">>


\* C22: the text that Display, Binary, Octal, LowerHex or UpperHex writes
\* for a, read by from_str_radix with the radix of the format, gives Ok(a).
C22_RadixRoundTrip ==
    /\ op = "returned" => out = Ok(a)
    /\ op # "panicked"

\* 10^38 written by Display and read back in base 10
C22_Witness ==
    /\ op = "returned"
    /\ a = TestFmtTen38
    /\ arg = U32(10)
    /\ src = TestFmtTen38Text
    /\ out = Ok(TestFmtTen38)

\* the chunks of Display give the text: the first written as it is, the
\* others in exactly 19 digits
ChunksGiveText(ch, text) ==
    LET top == u64_fmt_display(ch[1].lo)
    IN  /\ CanonicalDecimal(top, ToNat(ch[1]))
        /\ Len(text) = Len(top) + 19 * (Len(ch) - 1)
        /\ SubSeq(text, 1, Len(top)) = top
        /\ \A i \in 2..Len(ch) :
              DecimalOfWidth(SubSeq(text, Len(top) + 19 * (i - 2) + 1,
                                    Len(top) + 19 * (i - 1)),
                             ToNat(ch[i]), 19)

\* C23 as stated: Display writes the representation of a in base 10 without
\* zeros in front: that of lo when hi == 0, else that of two or three chunks
\* got by div_rem with 10^19, each below 10^19 with hi == 0, the first
\* nonzero and written as it is (of at most 2 digits when there are three),
\* the others written in exactly 19 digits.
C23_EveryChunkBelowTen19 ==
    op = "fmt_display" =>
        LET ch == display_chunks(a)
        IN  /\ CanonicalDecimal(src, ToNat(a))
            /\ a.hi = u64_ZERO => Len(ch) = 1 /\ src = u64_fmt_display(a.lo)
            /\ a.hi # u64_ZERO =>
                  /\ Len(ch) \in {2, 3}
                  /\ \A i \in 1..Len(ch) :
                        ch[i].hi = u64_ZERO /\ NatLess(ToNat(ch[i]), ToNat(TEN19))
                  /\ ch[1] # ZERO
                  /\ Len(ch) = 3 => Len(u64_fmt_display(ch[1].lo)) <= 2
                  /\ ChunksGiveText(ch, src)

\* C23, amended: as above, but only the chunks after the first are below
\* 10^19; the first of two chunks is any nonzero 64-bit value (it is 10^19
\* or more for 10^38 <= a < 2^64 * 10^19), the first of three is 1, 2 or 3.
C23_Display ==
    op = "fmt_display" =>
        LET ch == display_chunks(a)
        IN  /\ CanonicalDecimal(src, ToNat(a))
            /\ a.hi = u64_ZERO => Len(ch) = 1 /\ src = u64_fmt_display(a.lo)
            /\ a.hi # u64_ZERO =>
                  /\ Len(ch) \in {2, 3}
                  /\ \A i \in 1..Len(ch) : ch[i].hi = u64_ZERO
                  /\ \A i \in 2..Len(ch) : NatLess(ToNat(ch[i]), ToNat(TEN19))
                  /\ ch[1] # ZERO
                  /\ Len(ch) = 3 => ch[1].lo[1] \in 1..3 /\ ch[1] = new(U64(0, 0, 0, ch[1].lo[1]))
                  /\ (Len(ch) = 2 /\ ~NatLess(ToNat(a), Pad(ToNat(TestFmtTen38), 16))) =>
                        ~NatLess(ToNat(ch[1]), ToNat(TEN19))
                  /\ ChunksGiveText(ch, src)

\* test_display: 10^38, whose first chunk of two is 10^19
C23_Witness ==
    /\ op = "fmt_display"
    /\ a = TestFmtTen38
    /\ src = TestFmtTen38Text
    /\ display_chunks(a) = <<TEN19, ZERO>>

\* C24: Binary, LowerHex and UpperHex write the representation of a in base
\* 2 or 16 without zeros in front: that of lo when hi == 0, else that of hi
\* followed by lo in exactly 64 binary or 16 hexadecimal digits, 65 to 128
\* or 17 to 32 digits in all.
C24_BinaryAndHex ==
    /\ op = "fmt_binary" =>
          /\ CanonicalPow2(src, ToNat(a), 1, DigitChars)
          /\ a.hi = u64_ZERO => src = u64_fmt_binary(a.lo)
          /\ a.hi # u64_ZERO =>
                /\ Len(src) \in 65..128
                /\ SubSeq(src, 1, Len(src) - 64) = u64_fmt_binary(a.hi)
                /\ CanonicalPow2(SubSeq(src, 1, Len(src) - 64), a.hi, 1, DigitChars)
                /\ \A i \in 1..64 :
                      src[Len(src) - 64 + i] = DigitChars[NatBit(a.lo, 64 - i) + 1]
    /\ op = "fmt_lower_hex" =>
          /\ CanonicalPow2(src, ToNat(a), 4, DigitChars)
          /\ a.hi = u64_ZERO => src = u64_fmt_lower_hex(a.lo)
          /\ a.hi # u64_ZERO =>
                /\ Len(src) \in 17..32
                /\ SubSeq(src, 1, Len(src) - 16) = u64_fmt_lower_hex(a.hi)
                /\ \A i \in 1..16 :
                      src[Len(src) - 16 + i] = DigitChars[DigitAt(a.lo, 4, 16 - i) + 1]
    /\ op = "fmt_upper_hex" =>
          /\ CanonicalPow2(src, ToNat(a), 4, UpperDigitChars)
          /\ a.hi = u64_ZERO => src = u64_fmt_upper_hex(a.lo)
          /\ a.hi # u64_ZERO =>
                /\ Len(src) \in 17..32
                /\ SubSeq(src, 1, Len(src) - 16) = u64_fmt_upper_hex(a.hi)
                /\ \A i \in 1..16 :
                      src[Len(src) - 16 + i]
                          = UpperDigitChars[DigitAt(a.lo, 4, 16 - i) + 1]

\* test_binary: a value with hi # 0
C24_Witness ==
    /\ op = "fmt_binary"
    /\ a = TestFmtBin2
    /\ src = TestFmtBin2Text

\* C25: Octal writes the representation of a in base 8 without zeros in
\* front; its groups are the bits 0-62, 63-125 and 126-127 of a; the highest
\* nonzero group is written as it is and each group below it in exactly 21
\* digits, the low group alone when the two others are 0.
C25_Octal ==
    op = "fmt_octal" =>
        LET g == octal_groups(a)
            n == ToNat(a)
            top == IF g[1] # u64_ZERO THEN u64_fmt_octal(g[1])
                   ELSE IF g[2] # u64_ZERO THEN u64_fmt_octal(g[2])
                   ELSE u64_fmt_octal(g[3])
            below == IF g[1] # u64_ZERO THEN 2 ELSE IF g[2] # u64_ZERO THEN 1 ELSE 0
        IN  /\ CanonicalPow2(src, n, 3, DigitChars)
            /\ \A i \in 0..63 :
                  /\ NatBit(g[3], i) = (IF i < 63 THEN NatBit(n, i) ELSE 0)
                  /\ NatBit(g[2], i) = (IF i < 63 THEN NatBit(n, 63 + i) ELSE 0)
                  /\ NatBit(g[1], i) = (IF i < 2 THEN NatBit(n, 126 + i) ELSE 0)
            /\ Len(src) = Len(top) + 21 * below
            /\ SubSeq(src, 1, Len(top)) = top
            /\ below = 0 => src = u64_fmt_octal(a.lo)
            /\ \A k \in 1..below : \A i \in 1..21 :
                  src[Len(src) - 21 * k + i]
                      = DigitChars[DigitAt(g[4 - k], 3, 21 - i) + 1]

\* test_octal: MAX is 3 followed by 42 sevens
C25_Witness ==
    /\ op = "fmt_octal"
    /\ a = MAX
    /\ src = TestFmtOctMaxText


\* C26: to_u64 is Some(lo) exactly when hi == 0, to_i64 is Some exactly
\* when the value is at most 2^63 - 1 and to_i128 exactly when it is below
\* 2^127, each with the value kept; from_u64 and From<u8>, <u16>, <u32>,
\* <u64> give hi == 0 and lo equal to the argument; from_i64(n) is
\* Some(new(n)) for n >= 0 and None for n < 0.
C26_Conversions ==
    /\ op = "to_u64" =>
          /\ out.tag = "Some" <=> a.hi = u64_ZERO
          /\ out.tag = "Some" => out.val = a.lo /\ Pad(out.val, 16) = ToNat(a)
    /\ op = "to_i64" =>
          /\ out.tag = "Some" <=> NatLess(ToNat(a), Pad(Pow2Nat(63), 16))
          /\ out.tag = "Some" =>
                ~i64_is_negative(out.val) /\ Pad(out.val, 16) = ToNat(a)
    /\ op = "to_i128" =>
          /\ out.tag = "Some" <=> NatLess(ToNat(a), Pad(Pow2Nat(127), 16))
          /\ out.tag = "Some" <=> NatLess(a.hi, Pad(Pow2Nat(63), 8))
          /\ out.tag = "Some" => out.val = i128(a)
    /\ op = "to_u128" => out = Some(a)
    /\ op = "from_u64" => out = Some([lo |-> b.lo, hi |-> u64_ZERO])
    /\ op = "From<u64>" => out = Value([lo |-> b.lo, hi |-> u64_ZERO])
    /\ op = "From<u32>" =>
          out.tag = "value" /\ out.val.hi = u64_ZERO /\ out.val.lo = Pad(arg, 8)
    /\ op = "From<u16>" =>
          /\ out.tag = "value" /\ out.val.hi = u64_ZERO
          /\ out.val.lo = Pad(<<arg[1], arg[2]>>, 8)
    /\ op = "From<u8>" =>
          out.tag = "value" /\ out.val.hi = u64_ZERO /\ out.val.lo = Pad(<<arg[1]>>, 8)
    /\ op = "from_i64" =>
          out = IF b.lo[8] < 128 THEN Some([lo |-> b.lo, hi |-> u64_ZERO]) ELSE None

\* 2^63 - 1 is the greatest value that to_i64 keeps
C26_Witness ==
    /\ op = "to_i64"
    /\ a = new(I64_MAX)
    /\ out = Some(I64_MAX)


\* C27: u64_long_mul(x, y) has the numeric value x * y.  Of its wrapping
\* steps, the four products of 32-bit halves are exact, the middle sum
\* a*d + b*c is mid plus its recorded carry times 2^64, hi = a*c + carry *
\* 2^32 stays below 2^64, and the last 128-bit addition does not wrap.
C27_LongMulExact ==
    op = "u64_long_mul" =>
        LET t == u64_long_mul_terms(a.lo, b.lo)
            Exact(p, q) == NatMul(p, q) = Pad(u64_wrapping_mul(p, q), 16)
            carry32 == IF t.carry THEN U64(0, 1, 0, 0) ELSE u64_ZERO
            carry64 == IF t.carry THEN <<1>> ELSE <<0>>
        IN  /\ out.tag = "value"
            /\ ToNat(out.val) = NatMul(a.lo, b.lo)
            /\ Exact(t.b, t.d) /\ Exact(t.a, t.d) /\ Exact(t.b, t.c) /\ Exact(t.a, t.c)
            /\ t.lo = u64_wrapping_mul(t.b, t.d)
            /\ NatAdd(NatMul(t.a, t.d), NatMul(t.b, t.c))
                  = Pad(t.mid \o carry64, 17)
            /\ NatAdd(NatMul(t.a, t.c), Pad(carry32, 16)) = Pad(t.hi, 17)
            /\ NatAdd(ToNat(from_parts(t.hi, t.lo)),
                      ToNat(from_parts(u64_shr_32(t.mid), u64_shl_32(t.mid))))
                  = Pad(ToNat(out.val), 17)

\* test_u64_long_mul: (2^64 - 1)^2 is from_parts(2^64 - 2, 1), the middle
\* sum having carried
C27_Witness ==
    /\ op = "u64_long_mul"
    /\ a = new(u64_MAX)
    /\ b = new(u64_MAX)
    /\ out = Value(from_parts(U64(\hFFFF, \hFFFF, \hFFFF, \hFFFE), u64_ONE))
    /\ u64_long_mul_terms(a.lo, b.lo).carry


\* C28: pow(x, e) is x^e when x^e <= 2^128 - 1, ONE for e = 0, and the
\* overflow panic exactly when x^e >= 2^128.  At the i-th test of the loop
\* (i = 0 first) base is x^(2^i), acc is x^(e mod 2^i) and exp is e div 2^i,
\* so that acc * base^exp = x^e; the loop is left after floor(log2(e)) turns
\* and acc is multiplied at most floor(log2(e)) + 1 times; no multiplication
\* overflows when x^e is representable.
C28_Pow ==
    op = "pow" =>
        LET x == ToNat(a)
            e == SmallValue(arg)
            exact == ExactPower(x, e)
            tr == pow_states(a, arg)
            turns == Len(tr) - 1
            last == tr[Len(tr)]
            log2 == BitLen(arg) - 1
            accMuls == Cardinality({ i \in 1..turns : tr[i].exp[1] % 2 = 1 })
                       + (IF ~last.panic /\ last.exp = U32(1) THEN 1 ELSE 0)
        IN  /\ out = IF AtLeastPow128(exact)
                     THEN Panic("arithmetic operation overflowed")
                     ELSE Value(Mod128(exact))
            /\ e = 0 => out = Value(ONE)
            /\ \A i \in 1..Len(tr) :
                  /\ (~tr[i].panic) =>
                        /\ tr[i].exp = U32(e \div (2 ^ (i - 1)))
                        /\ Pad(ToNat(tr[i].base), PowDigits) = ExactPower(x, 2 ^ (i - 1))
                        /\ Pad(ToNat(tr[i].acc), PowDigits)
                              = ExactPower(x, e % (2 ^ (i - 1)))
                  /\ tr[i].panic => i = Len(tr)
            /\ e >= 1 => turns <= log2 /\ accMuls <= log2 + 1
            /\ (~last.panic) => (e <= 1 \/ turns = log2)
            /\ (~AtLeastPow128(exact)) => ~last.panic

\* 3^80 is below 2^128: seven turns, two multiplications of acc
C28_Witness ==
    /\ op = "pow"
    /\ a = new(U64(0, 0, 0, 3))
    /\ arg = U32(80)
    /\ out.tag = "value"
    /\ Len(pow_states(a, arg)) = 7
    /\ Pad(ToNat(out.val), PowDigits) = ExactPower(ToNat(a), 80)

=============================================================================
